---- MODULE Spec2Model ----
(***************************************************************************)
(* Offline mutation queue of the AppSync client: OfflineLink.request,      *)
(* enqueueMutation, offlineEffect, the metadata reducers, the discard      *)
(* policy and the identifier utilities of link/offline-link.ts, driven by  *)
(* the redux-offline outbox that store.ts configures.                      *)
(***************************************************************************)
EXTENDS Integers, Sequences, FiniteSets, TLC

\* ------------------------------------------------------------------ bounds
\* Number of mutations the application issues in one behaviour.
MaxMutations == 2
\* Mutations the application issues in SpecMap.
MaxQueued == 3
\* Number of replays the transport fails in one behaviour of Spec.
MaxFailures == 2
\* Largest retry count handed to the discard policy in SpecDiscard.
MaxRetriesIn == 12

\* ------------------------------------------------------- program constants
\* _discard: `retries > 10`.
RetryCeiling == 10
\* redux-offline's default retry(): its decay schedule has ten delays, so
\* retry(action, retries) is null from retries = 10 on.
DecayScheduleLen == 10

\* ------------------------------------------------------------- JS values
\* A JS value is a tagged record: undefined, null, a string scalar, an
\* object (a function from field names to values), an array or a function.
Undef == [k |-> "undef"]
Null == [k |-> "null"]
Str(s) == [k |-> "str", v |-> s]
Obj(f) == [k |-> "obj", f |-> f]
Arr(e) == [k |-> "arr", e |-> e]
Fn == [k |-> "fn"]

\* JS truthiness of a value (`!obj` is its negation).
Truthy(x) == x.k \in {"obj", "arr", "fn"} \/ (x.k = "str" /\ x.v # "")

\* typeof x === 'object' (true of null as well).
IsObjectType(x) == x.k \in {"obj", "arr", "null"}

\* The "not yet known" marker of the Identifier Map (a JS null).
NULL == "<null>"
EmptyMap == [x \in {} |-> NULL]

\* {...a, ...b}
Spread(a, b) == [x \in DOMAIN a \cup DOMAIN b |-> IF x \in DOMAIN b THEN b[x] ELSE a[x]]

\* Identifiers.  Client-generated temporary identifiers are UUIDs; the server
\* may assign a UUID or any other string.
TempIds == {"T1", "T2", "T3", "T4"}
ServerUuids == {"S1", "S2", "S3", "S4"}
ServerPlain == {"N1", "N2", "N3", "N4"}
TempId(n) == <<"T1", "T2", "T3", "T4">>[n]
ServerUuid(n) == <<"S1", "S2", "S3", "S4">>[n]
ServerPlainId(n) == <<"N1", "N2", "N3", "N4">>[n]

\* A variant of the test below that every identifier passes.
isUuidAnyFormat(id) == TRUE

\* ../utils isUuid: whether the identifier has the UUID format.
isUuid(id) == id \in TempIds \cup ServerUuids

\* ../cache defaultDataIdFromObject: "Typename:id" for an object that has
\* both, null otherwise.  The key is modelled as the pair <<typename, id>>.
NoDataId == <<>>
dataIdFromObject(obj) ==
    IF /\ obj.k = "obj"
       /\ "__typename" \in DOMAIN obj.f
       /\ "id" \in DOMAIN obj.f
       /\ Truthy(obj.f["__typename"])
       /\ Truthy(obj.f["id"])
       /\ obj.f["id"].k = "str"
    THEN <<obj.f["__typename"].v, obj.f["id"].v>>
    ELSE NoDataId

\* ------------------------------------------------------ replaceUsingMap
\* map[x] for a value used as a property key: a string is its own key, an
\* array is the join of its elements (one string element: that string), an
\* object is "[object Object]".
HasKey(x) == x.k = "str" \/ (x.k = "arr" /\ Len(x.e) = 1 /\ x.e[1].k = "str")
KeyOf(x) == IF x.k = "str" THEN x.v ELSE x.e[1].v

\* The map is a plain object: map[key] is its own entry when it has one, and
\* otherwise what Object.prototype has under that name (a function, for the
\* one such name the inputs use) or undefined.
InheritedKeys == {"constructor"}
MapGet(map, key) ==
    IF key \in DOMAIN map THEN (IF map[key] = NULL THEN Null ELSE Str(map[key]))
    ELSE IF key \in InheritedKeys THEN Fn
    ELSE Undef

\* A variant of the test below that takes the not-yet-known marker for an
\* identifier.
MapHitAnyEntry(map, x) == HasKey(x) /\ MapGet(map, KeyOf(x)) # Undef

\* `if (newVal)` for newVal = map[x].
MapHit(map, x) == HasKey(x) /\ Truthy(MapGet(map, KeyOf(x)))

RECURSIVE replaceUsingMap(_, _)
replaceUsingMapField(val, map) ==
    IF val.k = "arr"
    THEN Arr([i \in DOMAIN val.e |-> replaceUsingMap(val.e[i], map)])
    ELSE IF IsObjectType(val)
    THEN replaceUsingMap(val, map)
    ELSE IF MapHit(map, val) THEN MapGet(map, KeyOf(val))
    ELSE val

replaceUsingMap(obj, map) ==
    IF ~Truthy(obj) THEN obj
    ELSE IF MapHit(map, obj) THEN MapGet(map, KeyOf(obj))
    ELSE IF obj.k = "obj"
    THEN Obj([key \in DOMAIN obj.f |-> replaceUsingMapField(obj.f[key], map)])
    ELSE IF obj.k = "arr"
    THEN Arr([i \in DOMAIN obj.e |-> replaceUsingMapField(obj.e[i], map)])
    ELSE obj

\* What replaceUsingMap({ ...orig }, map) leaves in `orig` itself: the
\* shallow copy protects the top-level fields, while nested objects and the
\* elements of top-level arrays are rewritten in place.
InPlaceElem(v, map) ==
    IF v.k \in {"obj", "arr"} /\ ~MapHit(map, v) THEN replaceUsingMap(v, map) ELSE v
AfterCopyReplace(orig, map) ==
    IF orig.k # "obj" THEN orig
    ELSE Obj([key \in DOMAIN orig.f |->
            LET val == orig.f[key] IN
            IF val.k = "arr" THEN Arr([i \in DOMAIN val.e |-> InPlaceElem(val.e[i], map)])
            ELSE IF val.k = "obj" THEN replaceUsingMap(val, map)
            ELSE val])

\* { ...x }: the spread of undefined or null is the empty object.
Copy(x) == IF x.k = "obj" THEN x ELSE Obj(EmptyMap)

\* ----------------------------------------------------------------- getIds
\* A path is the string the code builds, kept as its sequence of pieces;
\* IdxStr(i) is the decimal string of the array index i (from 0).
IdxStr(i) == <<"0", "1", "2", "3">>[i + 1]

RECURSIVE getIdPairs(_, _)
getIdPairs(obj, path) ==
    IF ~Truthy(obj) \/ ~IsObjectType(obj) THEN {}
    ELSE LET dataId == dataIdFromObject(obj)
             own == IF dataId # NoDataId /\ isUuid(dataId[2])
                    THEN {<<path, dataId[2]>>} ELSE {}
             keys == IF obj.k = "obj" THEN DOMAIN obj.f ELSE {}
             sub(key) ==
                LET val == obj.f[key] IN
                IF val.k = "arr"
                THEN UNION {getIdPairs(val.e[i], path \o <<".", key, "[", IdxStr(i - 1), "]">>)
                               : i \in DOMAIN val.e}
                ELSE IF IsObjectType(val)
                THEN getIdPairs(val, path \o (IF path # <<>> THEN <<".">> ELSE <<>>) \o <<key>>)
                ELSE {}
         IN own \cup UNION {sub(key) : key \in keys}

\* The identified objects of a response tree: the pairs <<path, id>> of every
\* object for which dataIdFromObject yields a key, whatever the id's format.
RECURSIVE identifiedPairs(_, _)
identifiedPairs(obj, path) ==
    IF ~Truthy(obj) \/ ~IsObjectType(obj) THEN {}
    ELSE LET dataId == dataIdFromObject(obj)
             own == IF dataId # NoDataId THEN {<<path, dataId[2]>>} ELSE {}
             keys == IF obj.k = "obj" THEN DOMAIN obj.f ELSE {}
             sub(key) ==
                LET val == obj.f[key] IN
                IF val.k = "arr"
                THEN UNION {identifiedPairs(val.e[i],
                                            path \o <<".", key, "[", IdxStr(i - 1), "]">>)
                               : i \in DOMAIN val.e}
                ELSE IF IsObjectType(val)
                THEN identifiedPairs(val, path \o (IF path # <<>> THEN <<".">> ELSE <<>>)
                                               \o <<key>>)
                ELSE {}
         IN own \cup UNION {sub(key) : key \in keys}

\* A variant of getIds below without the test of the id's format.
getIdsAnyFormat(obj) ==
    LET pairs == identifiedPairs(obj, <<>>) IN
    [p \in {pr[1] : pr \in pairs} |-> (CHOOSE pr \in pairs : pr[1] = p)[2]]

getIds(obj) ==
    LET pairs == getIdPairs(obj, <<>>) IN
    [p \in {pr[1] : pr \in pairs} |-> (CHOOSE pr \in pairs : pr[1] = p)[2]]

\* A variant of the operator below in which the walk empties the tree.
treeAfterGetIdsConsumed(obj) == Null

\* The tree after getIds walked it: the function assigns to acc[path] only.
treeAfterGetIds(obj) == obj

intersectingKeys(obj1, obj2) == DOMAIN obj1 \cap DOMAIN obj2

mapIds(obj1, obj2) ==
    LET ks == intersectingKeys(obj1, obj2) IN
    [old \in {obj1[p] : p \in ks} |-> obj2[CHOOSE p \in ks : obj1[p] = old]]

\* ------------------------------------------------------ metadata reducers
SAVE_SNAPSHOT == "SAVE_SNAPSHOT"
ENQUEUE == "ENQUEUE_OFFLINE_MUTATION"
COMMIT == "COMMIT_OFFLINE_MUTATION"
ROLLBACK == "ROLLBACK_OFFLINE_MUTATION"
SAVE_SERVER_ID == "SAVE_SERVER_ID"

\* A variant of the counter below that a COMMIT leaves unchanged.
enqueuedMutationsReducerNoCommit(state, action) ==
    IF action.type = ENQUEUE THEN state + 1
    ELSE IF action.type = ROLLBACK THEN state - 1
    ELSE state

\* A variant of the counter below that a ROLLBACK leaves unchanged.
enqueuedMutationsReducerNoRollback(state, action) ==
    IF action.type = ENQUEUE THEN state + 1
    ELSE IF action.type = COMMIT THEN state - 1
    ELSE state

enqueuedMutationsReducer(state, action) ==
    IF action.type = ENQUEUE THEN state + 1
    ELSE IF action.type \in {COMMIT, ROLLBACK} THEN state - 1
    ELSE state

\* cache.extract(false) is the payload's cache content.
cacheSnapshotReducer(state, action) ==
    IF action.type = SAVE_SNAPSHOT THEN action.payload.cache ELSE state

snapshotReducer(state, action) ==
    [enqueuedMutations |-> enqueuedMutationsReducer(state.enqueuedMutations, action),
     cache |-> cacheSnapshotReducer(state.cache, action)]

idsMapReducer(state, action, remainingMutations) ==
    IF action.type = ENQUEUE
    THEN LET ids == getIds(action.payload.optimisticResponse)
             entries == [id \in {ids[p] : p \in DOMAIN ids} |-> NULL]
         IN Spread(state, entries)
    ELSE IF action.type = COMMIT
    THEN IF remainingMutations # 0 THEN state ELSE EmptyMap
    ELSE IF action.type = SAVE_SERVER_ID
    THEN LET oldIds == getIds(action.payload.optimisticResponse)
             newIds == getIds(action.payload.data)
         IN Spread(state, mapIds(oldIds, newIds))
    ELSE state

metadataReducer(state, action) ==
    LET snapshot == snapshotReducer(state.snapshot, action) IN
    [snapshot |-> snapshot,
     idsMap |-> idsMapReducer(state.idsMap, action, snapshot.enqueuedMutations)]

\* ---------------------------------------------------------- discard policy
CCF == "DynamoDB:ConditionalCheckFailedException"
BackendError == "DynamoDB:AmazonDynamoDBException"
ClientError == "AWSAppSyncClient:ApplyPatchException"
OtherNetError == "ServerError"

\* err.errorType.startsWith('AWSAppSyncClient:')
StartsWithClientTag(t) == t = ClientError

\* Every error shape: the errorTypes of error.graphQLErrors, those of
\* error.networkError.graphQLErrors, and error.permanent.
AllErrors ==
    [graphQLErrors : SUBSET {CCF, BackendError},
     networkErrors : SUBSET {ClientError, OtherNetError},
     permanent : BOOLEAN]

\* The errors the transport's stream delivers to a replay: a conflict, another
\* backend error, a network error tagged by the client's own validation, and
\* a plain network error; the plain error also as permanent.
TransportErrors ==
    {e \in AllErrors :
        \/ /\ e.graphQLErrors \in {{CCF}, {BackendError}}
           /\ e.networkErrors = {}
           /\ ~e.permanent
        \/ /\ e.graphQLErrors = {}
           /\ e.networkErrors \in {{ClientError}, {OtherNetError}}
           /\ (e.permanent => e.networkErrors = {OtherNetError})}

\* The conflict resolver the store was created with: absent (undefined or
\* null) or a user function.
Resolvers == {"undefined", "null", "function"}
\* What one call of a user resolver does.
ResolverOutcomes == {"DISCARD", "variables", "falsy", "throws"}
\* The replacement variables a resolver returns.
ResolvedVariables == Obj(("name" :> Str("resolved")))

\* A field of an object that may lack it reads as undefined.
Field(rec, name) == IF name \in DOMAIN rec THEN rec[name] ELSE Undef

\* Whether _discard reaches its call of the resolver.
resolverCalled(fn, error, action) ==
    /\ CCF \in error.graphQLErrors
    /\ fn \in {"function", "default"}
    /\ Field(action.meta.offline.effect, "mutation") # Undef

\* A variant of the rule below with a ceiling of five retries.
transientRuleEarly(error, retries) ==
    IF error.permanent \/ retries > RetryCeiling - 5 THEN "DISCARD" ELSE "RETRY"

\* A variant of the rule below that gives up at the ceiling itself.
transientRuleAtCeiling(error, retries) ==
    IF error.permanent \/ retries >= RetryCeiling THEN "DISCARD" ELSE "RETRY"

\* `return error.permanent || retries > 10`
transientRule(error, retries) ==
    IF error.permanent \/ retries > RetryCeiling THEN "DISCARD" ELSE "RETRY"

\* A variant of _discard below without its two unconditional-discard branches.
_discardTransientOnly(fn, error, action, retries, outcome) ==
    IF CCF \in error.graphQLErrors /\ fn \in {"function", "default"}
    THEN "THROWS"
    ELSE transientRule(error, retries)

\* The outcome of _discard: "DISCARD" is `return true`, "RETRY" is
\* `return false`, "THROWS" is an exception leaving the function.
\* fn is "function" after discard()'s default parameter replaced undefined.
\* getOperationName(mutation) and getOperationDefinition(mutation) throw on
\* an undefined document, before the try block.
_discard(fn, error, action, retries, outcome) ==
    LET conditionalCheck == CCF \in error.graphQLErrors
        mutation == Field(action.meta.offline.effect, "mutation")
    IN  IF conditionalCheck
        THEN IF fn \in {"function", "default"}
             THEN IF mutation = Undef THEN "THROWS"
                  ELSE IF outcome = "throws" THEN "DISCARD"
                  ELSE IF outcome = "DISCARD" THEN "DISCARD"
                  ELSE IF outcome = "variables" THEN "RETRY"
                  ELSE transientRule(error, retries)
             ELSE transientRule(error, retries)
        ELSE IF error.graphQLErrors # {} THEN "DISCARD"
        ELSE IF \E t \in error.networkErrors : StartsWithClientTag(t) THEN "DISCARD"
        ELSE transientRule(error, retries)

\* The effect after _discard: a truthy resolver result is stored in
\* action.meta.offline.effect.variables.
discardEffect(fn, error, action, retries, outcome) ==
    LET effect == action.meta.offline.effect IN
    IF /\ CCF \in error.graphQLErrors
       /\ fn \in {"function", "default"}
       /\ Field(effect, "mutation") # Undef
       /\ outcome = "variables"
    THEN [x \in DOMAIN effect \cup {"variables"} |->
            IF x = "variables" THEN ResolvedVariables ELSE effect[x]]
    ELSE effect

\* discard(fn = () => 'DISCARD'): the default replaces undefined only, and
\* the default function returns 'DISCARD' on every call.
DefaultFn(conflictResolver) ==
    IF conflictResolver = "undefined" THEN "default" ELSE conflictResolver
OutcomeOf(fn, outcome) == IF fn = "default" THEN "DISCARD" ELSE outcome

discard(conflictResolver, error, action, retries, outcome) ==
    LET fn == DefaultFn(conflictResolver) IN
    _discard(fn, error, action, retries, OutcomeOf(fn, outcome))

discardedEffect(conflictResolver, error, action, retries, outcome) ==
    LET fn == DefaultFn(conflictResolver) IN
    discardEffect(fn, error, action, retries, OutcomeOf(fn, outcome))

\* ------------------------------------------------------------------ state
VARIABLES
    hydrated,          \* the client's hydratedPromise has resolved
    online,            \* offline.online
    outbox,            \* offline.outbox: the queued ENQUEUE actions' effects
    busy,              \* offline.busy
    retryScheduled,    \* offline.retryScheduled
    retryCount,        \* offline.retryCount
    metadata,          \* [METADATA_KEY]: snapshot {enqueuedMutations, cache}, idsMap
    cache,             \* the normalized cache: the data ids written to it
    inflight,          \* operations forwarded to the network transport
    conflictResolver,  \* the resolver newStore was given
    issued,            \* number of mutations the application has issued
    observer,          \* per mutation: what its caller's observer was delivered
    trace,             \* per mutation: the order of its queue and network events
    sendOrder,         \* mutation ids in the order of their first network send
    lastError,         \* the last replay failure and the discard decision on it
    issue,             \* per mutation: how it was issued and what the server assigned
    failuresLeft,      \* replays the transport may still fail in this behaviour
    dcall,             \* SpecDiscard: one call of the discard policy
    disableOffline,    \* the client was built with disableOffline = true
    cacheRestore,      \* the link is the request() that restores the cache snapshot
    deferred,          \* ENQUEUE actions whose dispatch setImmediate has deferred
    rehydrated,        \* the store's `rehydrated` key: PERSIST_REHYDRATE was reduced
    ucall,             \* SpecUtils: one call of a utility function, step by step
    queryManager       \* client.queryManager: its broadcastQueries and the broadcasts made

vars == <<hydrated, online, outbox, busy, retryScheduled, retryCount, metadata,
          cache, inflight, conflictResolver, issued, observer, trace, sendOrder,
          lastError, issue, failuresLeft, dcall, disableOffline, cacheRestore, deferred, rehydrated, ucall, queryManager>>

queueVars == <<hydrated, online, outbox, busy, retryScheduled, retryCount, metadata,
               cache, inflight, conflictResolver, issued, observer, trace, sendOrder,
               lastError, issue, failuresLeft, disableOffline, cacheRestore, deferred, rehydrated, ucall, queryManager>>

None == [k |-> "none"]

\* An observer's subscription closes on complete, on error and when its
\* caller unsubscribes; what the code calls on it afterwards is not delivered.
Closed(o) == Len(o) > 0 /\ o[Len(o)].t \in {"complete", "error", "unsubscribe"}
\* A variant of the delivery below that reaches the caller whatever the
\* subscription's state.
DeliverAlways(o, ev) == Append(o, ev)

\* observer.next / complete / error on the subscription observer.
Deliver(o, ev) == IF Closed(o) THEN o ELSE Append(o, ev)
Next_(d) == [t |-> "next", d |-> d]
Complete == [t |-> "complete"]
Error(e) == [t |-> "error", d |-> e]
Unsubscribed == [t |-> "unsubscribe"]

\* The data ids a result writes to the normalized cache.
RECURSIVE DataIds(_)
DataIds(x) ==
    IF x.k = "obj"
    THEN (IF dataIdFromObject(x) # NoDataId THEN {dataIdFromObject(x)} ELSE {})
         \cup UNION {DataIds(x.f[key]) : key \in DOMAIN x.f}
    ELSE IF x.k = "arr" THEN UNION {DataIds(x.e[i]) : i \in DOMAIN x.e}
    ELSE {}

\* ------------------------------------------------------ the application
\* The mutation `add(name, parentId) { id name }`: its variables, the
\* optimistic response the caller may supply, and the server's response.
Variables(parent) == Obj(("name" :> Str("x")) @@ ("parentId" :> Str(parent)))
Entity(id) == Obj(("__typename" :> Str("Item")) @@ ("id" :> Str(id)) @@ ("name" :> Str("x")))
Response(id) == Obj(("add" :> Entity(id)))
\* The n-th mutation: without an optimistic response, creating an entity
\* under its own temporary id (a child, when it names the first mutation's
\* entity as its parent), or updating the first mutation's entity.
MutationInputs(n) ==
    {[optimisticResponse |-> Undef, parent |-> "x"],
     [optimisticResponse |-> Response(TempId(n)), parent |-> "x"]}
    \cup (IF n = 1 THEN {}
          ELSE {[optimisticResponse |-> Response(TempId(n)), parent |-> TempId(1)],
                [optimisticResponse |-> Response(TempId(1)), parent |-> TempId(1)]})
ServerChoices(n) == {ServerUuid(n), ServerPlainId(n)}

\* --------------------------------------------------------- enqueueMutation
\* The null-filled result for the mutation's selection set.
Skeleton == Obj(("add" :> Null))

\* The effect of the ENQUEUE action.  It holds the operation (query and
\* variables); it has no `mutation` and no `variables` field of its own.
EnqueuedEffect(n, variables, optimisticResponse) ==
    [id |-> n,
     optimisticResponse |-> optimisticResponse,
     operation |-> [variables |-> variables]]

enqueueAction(effect) ==
    [type |-> ENQUEUE,
     payload |-> [optimisticResponse |-> effect.optimisticResponse],
     meta |-> [offline |-> [effect |-> effect]]]

\* A variant of the enqueue below that puts the action at the head.
enqueueOutboxFront(ob, action) == <<action>> \o ob

\* redux-offline's reducer appends the action that carries meta.offline.
enqueueOutbox(ob, action) == Append(ob, action)

\* A variant of the return value below with its two branches exchanged.
enqueueMutationResultInverted(optimisticResponse) ==
    IF Truthy(optimisticResponse) THEN Skeleton ELSE optimisticResponse

\* enqueueMutation's return value.
enqueueMutationResult(optimisticResponse) ==
    IF Truthy(optimisticResponse) THEN optimisticResponse ELSE Skeleton

\* ------------------------------------------------------------ offlineEffect
\* The replay-flagged operation offlineEffect builds for an effect.
offlineEffect(effect, idsMap) ==
    [id |-> effect.id,
     doIt |-> TRUE,
     variables |-> replaceUsingMap(Copy(effect.operation.variables), idsMap),
     optimisticResponse |-> replaceUsingMap(Copy(effect.optimisticResponse), idsMap)]

\* The stored effect after offlineEffect ran on it.
effectAfterReplay(effect, idsMap) ==
    [effect EXCEPT !.operation.variables = AfterCopyReplace(@, idsMap),
                   !.optimisticResponse = AfterCopyReplace(@, idsMap)]

\* ------------------------------------------------------ OfflineLink.request
\* A variant of request() below that enqueues a mutation only while offline.
requestPathForwardOnline(isOnline, operationType, doIt) ==
    IF ~isOnline /\ operationType = "query" THEN "offlineQuery"
    ELSE IF operationType = "mutation" /\ ~doIt /\ ~isOnline THEN "enqueue"
    ELSE "forward"

\* A variant of request() below that forwards a query whatever the status.
requestPathForwardQuery(isOnline, operationType, doIt) ==
    IF operationType = "mutation" /\ ~doIt THEN "enqueue"
    ELSE "forward"

\* The path request() takes: "offlineQuery", "enqueue" or "forward".
requestPath(isOnline, operationType, doIt) ==
    IF ~isOnline /\ operationType = "query" THEN "offlineQuery"
    ELSE IF operationType = "mutation" /\ ~doIt THEN "enqueue"
    ELSE "forward"

\* The request() that restores the cache snapshot before a replay:
\* `if (!doIt || !online)` takes the enqueue branch for every mutation while
\* offline, flagged or not.
requestPathRestore(isOnline, operationType, doIt) ==
    IF ~isOnline /\ operationType = "query" THEN "offlineQuery"
    ELSE IF operationType = "mutation" /\ (~doIt \/ ~isOnline) THEN "enqueue"
    ELSE "forward"

\* ------------------------------------------------------- the outbox driver
\* redux-offline's middleware, after every dispatched action: the head of
\* the outbox is sent when nothing is being processed or waiting for a retry
\* and the network is online.  send() marks the queue busy and calls the
\* configured effect, offlineEffect, which forwards the replay operation.

\* A variant of the test below that sends whatever the network status.
ShouldSendOffline(ob, bz, rs, on) == Len(ob) > 0 /\ ~bz /\ ~rs

\* Whether the middleware sends the head of the outbox.
ShouldSend(ob, bz, rs, on) == Len(ob) > 0 /\ ~bz /\ ~rs /\ on

Mark(tr, n, ev) == [tr EXCEPT ![n] = Append(@, ev)]

\* A variant of the gate below that lets every operation pass.
passesRehydrationAlways(isHydrated) == TRUE

\* waitForRehydrationLink, the first link of the client's chain, and
\* `await client.hydrated()` in offlineEffect: an operation goes on once the
\* hydrated promise has resolved.
passesRehydration(isHydrated) == isHydrated

\* offlineEffect past the hydration gate: the replay operation of the head
\* of the outbox is executed on the client's link.
SendHead(ob, meta, infl, tr) ==
    LET action == ob[1]
        effect == action.meta.offline.effect
        op == offlineEffect(effect, meta.idsMap)
        kept == [action EXCEPT !.meta.offline.effect = effectAfterReplay(effect, meta.idsMap)]
    IN /\ outbox' = <<kept>> \o Tail(ob)
       /\ inflight' = infl \cup {op}
       /\ trace' = IF \E i \in 1..Len(tr[effect.id]) : tr[effect.id][i] = "send"
                    THEN tr ELSE Mark(tr, effect.id, "send")
       /\ sendOrder' = IF \E i \in 1..Len(sendOrder) : sendOrder[i] = effect.id
                       THEN sendOrder ELSE Append(sendOrder, effect.id)

Drain(ob, bz, rs, on, meta, infl, tr) ==
    IF ShouldSend(ob, bz, rs, on) /\ passesRehydration(hydrated)
    THEN /\ busy' = TRUE
         /\ SendHead(ob, meta, infl, tr)
    ELSE /\ busy' = (bz \/ ShouldSend(ob, bz, rs, on))
         /\ outbox' = ob
         /\ inflight' = infl
         /\ trace' = tr
         /\ sendOrder' = sendOrder

\* The cache after the middleware ran: a replay that is sent reaches
\* request() with the flag set, and the request() with cache restore then
\* restores the cache from the snapshot.
cacheAtSend(ob, bz, rs, on, meta, c) ==
    IF cacheRestore /\ ShouldSend(ob, bz, rs, on) /\ passesRehydration(hydrated)
    THEN meta.snapshot.cache ELSE c

\* The query manager as the client's constructor leaves it, and after the
\* request() with cache restore handled a replay: broadcastQueries is then
\* a function that does nothing.
OrigManager == [broadcastQueries |-> "orig", broadcasts |-> 0]
managerAtSend(ob, bz, rs, on, qm) ==
    IF cacheRestore /\ ShouldSend(ob, bz, rs, on) /\ passesRehydration(hydrated)
    THEN [qm EXCEPT !.broadcastQueries = "noop"] ELSE qm

\* A variant of the handler below that leaves broadcastQueries as it is.
restoreBroadcastNever(restore, qm) == qm

\* The next handler of the request() with cache restore: broadcastQueries is
\* the original function again, and it is called once.
restoreBroadcast(restore, qm) ==
    IF restore
    THEN [broadcastQueries |-> "orig", broadcasts |-> qm.broadcasts + 1] ELSE qm

\* ---------------------------------------------------------------- actions
saveSnapshot(c) == [type |-> SAVE_SNAPSHOT, payload |-> [cache |-> c]]
saveServerId(optimisticResponse, data) ==
    [type |-> SAVE_SERVER_ID, payload |-> [data |-> data, optimisticResponse |-> optimisticResponse]]

\* redux-persist's callback: the hydrated promise resolves (after
\* PERSIST_REHYDRATE, with nothing persisted when PersistRehydrate did not
\* run before).  Every operation waits for it in waitForRehydrationLink, and
\* the replay that offlineEffect was called for meanwhile goes on.
Rehydrate ==
    /\ ~hydrated
    /\ hydrated' = TRUE
    /\ rehydrated' = TRUE
    /\ lastError' = None
    /\ IF busy /\ Len(outbox) > 0
       THEN /\ SendHead(outbox, metadata, inflight, trace)
            /\ cache' = IF cacheRestore THEN metadata.snapshot.cache ELSE cache
            /\ queryManager' = IF cacheRestore
                               THEN [queryManager EXCEPT !.broadcastQueries = "noop"]
                               ELSE queryManager
       ELSE UNCHANGED <<outbox, inflight, trace, sendOrder, cache, queryManager>>
    /\ UNCHANGED <<online, busy, retryScheduled, retryCount, metadata,
                   conflictResolver, issued, observer,
                   issue, failuresLeft, dcall, disableOffline, cacheRestore, deferred, ucall>>

\* What the previous session persisted: k mutations issued while offline,
\* each creating an entity under its own temporary id.
PersistedEffect(n) == EnqueuedEffect(n, Variables("x"), Response(TempId(n)))
RECURSIVE PersistedMetadata(_)
PersistedMetadata(k) ==
    IF k = 0
    THEN [snapshot |-> [enqueuedMutations |-> 0, cache |-> {}], idsMap |-> EmptyMap]
    ELSE LET before == IF k = 1
                       THEN metadataReducer(PersistedMetadata(0), saveSnapshot({}))
                       ELSE PersistedMetadata(k - 1)
         IN metadataReducer(before, enqueueAction(PersistedEffect(k)))

\* PERSIST_REHYDRATE with a persisted queue of k effects: the store takes
\* the persisted outbox, metadata and normalized cache, and the middleware
\* calls offlineEffect for the head when online.
PersistRehydrate(k) ==
    /\ ~rehydrated
    /\ ~hydrated
    /\ issued = 0
    /\ rehydrated' = TRUE
    /\ issued' = k
    /\ metadata' = PersistedMetadata(k)
    /\ cache' = UNION {DataIds(Response(TempId(n))) : n \in 1..k}
    /\ observer' = [n \in DOMAIN observer |->
                       IF n <= k THEN <<Next_(Response(TempId(n))), Complete>>
                       ELSE observer[n]]
    /\ issue' = [n \in DOMAIN issue |->
                    IF n <= k
                    THEN [online |-> FALSE, optimisticResponse |-> Response(TempId(n)),
                          parent |-> "x", behind |-> 1..(n - 1), serverId |-> "",
                          type |-> "mutation", doIt |-> FALSE, path |-> "enqueue",
                          cache |-> UNION {DataIds(Response(TempId(m))) : m \in 1..(n - 1)},
                          pending |-> n - 1,
                          idsMap |-> PersistedMetadata(n - 1).idsMap]
                    ELSE issue[n]]
    /\ queryManager' = managerAtSend([n \in 1..k |-> enqueueAction(PersistedEffect(n))],
                                     FALSE, FALSE, online, queryManager)
    /\ Drain([n \in 1..k |-> enqueueAction(PersistedEffect(n))], FALSE, FALSE, online,
             PersistedMetadata(k), inflight,
             [n \in DOMAIN trace |->
                 IF n <= k
                 THEN (IF n = 1 THEN <<"snapshot">> ELSE <<>>) \o <<"enqueue", "emit">>
                 ELSE trace[n]])
    /\ lastError' = None
    /\ UNCHANGED <<hydrated, online, retryScheduled, retryCount, conflictResolver,
                   failuresLeft, dcall, disableOffline, cacheRestore, deferred, ucall>>

\* The reachability signal changes offline.online.
NetworkStatus(on) ==
    /\ on # online
    /\ online' = on
    /\ lastError' = None
    /\ Drain(outbox, busy, retryScheduled, on, metadata, inflight, trace)
    /\ cache' = cacheAtSend(outbox, busy, retryScheduled, on, metadata, cache)
    /\ queryManager' = managerAtSend(outbox, busy, retryScheduled, on, queryManager)
    /\ UNCHANGED <<hydrated, retryScheduled, retryCount, metadata,
                   conflictResolver, issued, observer, issue, failuresLeft, dcall,
                   disableOffline, cacheRestore, deferred, rehydrated, ucall>>

\* A variant of the test below that emits at enqueue time whatever the status.
emitsAtEnqueueAlways(isOnline) == TRUE

\* request(): `if (!online)` around observer.next({ data }) and
\* observer.complete() after enqueueMutation.
emitsAtEnqueue(isOnline) == ~isOnline

\* A variant of the link below that routes every operation through
\* OfflineLink.request.
linkPathStoreOnly(disabled, restore, isOnline, operationType, doIt) ==
    IF restore THEN requestPathRestore(isOnline, operationType, doIt)
    ELSE requestPath(isOnline, operationType, doIt)

\* createLinkWithStore: without a store (disableOffline) the link is a
\* passthrough, otherwise it is one of the two OfflineLink.request.
linkPath(disabled, restore, isOnline, operationType, doIt) ==
    IF disabled THEN "forward"
    ELSE IF restore THEN requestPathRestore(isOnline, operationType, doIt)
    ELSE requestPath(isOnline, operationType, doIt)

\* processOfflineQuery: the query's data read from the normalized cache of
\* the store.
processOfflineQuery(normalizedCache) == [k |-> "data", ids |-> normalizedCache]

\* An operation reaches the link: client.mutate and client.query set no
\* replay flag; doIt is the flag in the operation's context.AASContext.
\* The request() with cache restore first restores the cache from the
\* snapshot for a flagged mutation (its context carries the client, as the
\* operations offlineEffect builds do), emits the enqueue result whatever
\* the status and completes only while offline; its enqueueMutation defers
\* the ENQUEUE dispatch with setImmediate (DispatchEnqueue below).
IssueWithin(max, operationType, doIt, optimisticResponse, parent) ==
    /\ passesRehydration(hydrated)
    /\ issued < max
    /\ LET n == issued + 1
           variables == Variables(parent)
           path == linkPath(disableOffline, cacheRestore, online, operationType, doIt)
           snap == metadata.snapshot.enqueuedMutations = 0
           c0 == IF cacheRestore /\ operationType = "mutation" /\ doIt
                 THEN metadata.snapshot.cache ELSE cache
           emits == IF cacheRestore THEN TRUE ELSE emitsAtEnqueue(online)
           completes == IF cacheRestore THEN ~online ELSE emitsAtEnqueue(online)
           meta0 == IF snap THEN metadataReducer(metadata, saveSnapshot(c0)) ELSE metadata
           action == enqueueAction(EnqueuedEffect(n, variables, optimisticResponse))
           meta1 == metadataReducer(meta0, action)
           ob1 == enqueueOutbox(outbox, action)
           data == enqueueMutationResult(optimisticResponse)
           obs0 == IF emits THEN Deliver(observer[n], Next_(data)) ELSE observer[n]
           obs1 == IF completes THEN Deliver(obs0, Complete) ELSE obs0
           tr1 == [trace EXCEPT ![n] = (IF snap THEN <<"snapshot">> ELSE <<>>)
                                        \o <<"enqueue">>
                                        \o (IF emits THEN <<"emit">> ELSE <<>>)]
       IN  /\ issued' = n
           /\ issue' = [issue EXCEPT ![n] =
                    [online |-> online, optimisticResponse |-> optimisticResponse,
                     parent |-> parent,
                     behind |-> {outbox[i].meta.offline.effect.id : i \in 1..Len(outbox)},
                     serverId |-> "",
                     type |-> operationType, doIt |-> doIt, path |-> path,
                     cache |-> cache,
                     pending |-> metadata.snapshot.enqueuedMutations,
                     idsMap |-> metadata.idsMap]]
           /\ deferred' = IF path = "enqueue" /\ cacheRestore
                          THEN Append(deferred, action) ELSE deferred
           /\ IF path = "enqueue" /\ cacheRestore
              THEN /\ metadata' = meta0
                   /\ observer' = [observer EXCEPT ![n] = obs1]
                   /\ cache' = c0 \cup DataIds(data)
                   /\ trace' = [trace EXCEPT ![n] =
                          (IF snap THEN <<"snapshot">> ELSE <<>>) \o <<"emit">>]
                   /\ UNCHANGED <<busy, outbox, inflight, sendOrder, queryManager>>
              ELSE IF path = "enqueue"
              THEN /\ metadata' = meta1
                   /\ observer' = [observer EXCEPT ![n] = obs1]
                   /\ cache' = cacheAtSend(ob1, busy, retryScheduled, online, meta1,
                                           IF emits THEN c0 \cup DataIds(data) ELSE c0)
                   /\ queryManager' = managerAtSend(ob1, busy, retryScheduled, online,
                                                    queryManager)
                   /\ Drain(ob1, busy, retryScheduled, online, meta1, inflight, tr1)
              ELSE IF path = "offlineQuery"
              THEN /\ observer' = [observer EXCEPT ![n] =
                          Deliver(Deliver(@, Next_(processOfflineQuery(cache))), Complete)]
                   /\ trace' = Mark(trace, n, "emit")
                   /\ UNCHANGED <<metadata, cache, busy, outbox, inflight, sendOrder,
                                  queryManager>>
              ELSE /\ inflight' = inflight \cup
                        {[id |-> n, doIt |-> doIt, variables |-> variables,
                          optimisticResponse |-> optimisticResponse,
                          type |-> operationType, direct |-> TRUE]}
                   /\ trace' = Mark(trace, n, "send")
                   /\ sendOrder' = Append(sendOrder, n)
                   /\ cache' = c0
                   /\ UNCHANGED <<metadata, observer, busy, outbox, queryManager>>
    /\ lastError' = None
    /\ UNCHANGED <<hydrated, online, retryScheduled, retryCount, conflictResolver,
                   failuresLeft, dcall, disableOffline, cacheRestore, rehydrated, ucall>>

\* The setImmediate callback of the enqueueMutation that defers its
\* dispatch: the ENQUEUE action reaches the store, the outbox and the
\* middleware.
DispatchEnqueue ==
    /\ Len(deferred) > 0
    /\ LET action == Head(deferred)
           n == action.meta.offline.effect.id
           meta1 == metadataReducer(metadata, action)
           ob1 == enqueueOutbox(outbox, action)
       IN  /\ deferred' = Tail(deferred)
           /\ metadata' = meta1
           /\ cache' = cacheAtSend(ob1, busy, retryScheduled, online, meta1, cache)
           /\ queryManager' = managerAtSend(ob1, busy, retryScheduled, online, queryManager)
           /\ Drain(ob1, busy, retryScheduled, online, meta1, inflight,
                    Mark(trace, n, "enqueue"))
    /\ lastError' = None
    /\ UNCHANGED <<hydrated, online, retryScheduled, retryCount, conflictResolver,
                   issued, observer, issue, failuresLeft, dcall, disableOffline,
                   cacheRestore, rehydrated, ucall>>

Issue(operationType, doIt, optimisticResponse, parent) ==
    IssueWithin(MaxMutations, operationType, doIt, optimisticResponse, parent)

\* client.mutate with offline support: a first-issuance mutation (doIt
\* false) reaches OfflineLink.request.
Mutate(optimisticResponse, parent) == Issue("mutation", FALSE, optimisticResponse, parent)

\* An operation in flight that offlineEffect executed, as opposed to one
\* that request() forwarded for a caller.
IsReplay(op) == "direct" \notin DOMAIN op

\* A variant of the completion below that leaves the action in the outbox.
DequeueNone(ob) == ob

\* redux-offline's completion of the head action: it leaves the outbox.
Dequeue(ob) == Tail(ob)

\* A variant of the next callback below that resolves the promise first:
\* the COMMIT is reduced and the next effect is read before SAVE_SERVER_ID
\* is dispatched.
nextCallbackResolveFirst(meta, record) ==
    LET m1 == metadataReducer(meta, [type |-> COMMIT])
    IN  [atCommit |-> m1, after |-> metadataReducer(m1, record)]

\* offlineEffect's next callback: boundSaveServerId dispatches synchronously,
\* then resolve() lets the COMMIT be reduced.  `atCommit` is the metadata the
\* middleware reads when it sends the next effect.
nextCallback(meta, record) ==
    LET m1 == metadataReducer(meta, record)
        m2 == metadataReducer(m1, [type |-> COMMIT])
    IN  [atCommit |-> m2, after |-> m2]

\* The transport answers the replay in flight with data: offlineEffect's
\* next callback, then the COMMIT action of the resolved promise.  With the
\* request() with cache restore the replay's next handler first saves the
\* snapshot and the server id.
ReplaySuccess(serverId) ==
    \E op \in inflight :
        /\ IsReplay(op)
        /\ op.doIt
        /\ Len(outbox) > 0
        /\ LET n == op.id
               data == Response(serverId)
               meta0 == IF cacheRestore
                        THEN metadataReducer(metadata, saveSnapshot(cache)) ELSE metadata
               done == nextCallback(meta0, saveServerId(op.optimisticResponse, data))
               wasOpen == ~Closed(observer[n])
               obs1 == Deliver(Deliver(observer[n], Next_(data)), Complete)
               meta2 == done.after
               tr1 == Mark(trace, n, "commit")
           IN  /\ serverId \in ServerChoices(n)
               /\ issue' = [issue EXCEPT ![n].serverId = serverId]
               /\ observer' = [observer EXCEPT ![n] = obs1]
               /\ cache' = cacheAtSend(Dequeue(outbox), FALSE, retryScheduled, online,
                                       done.atCommit,
                                       IF wasOpen THEN cache \cup DataIds(data) ELSE cache)
               /\ queryManager' = managerAtSend(Dequeue(outbox), FALSE, retryScheduled, online,
                                                restoreBroadcast(cacheRestore, queryManager))
               /\ metadata' = meta2
               /\ retryCount' = 0
               /\ Drain(Dequeue(outbox), FALSE, retryScheduled, online, done.atCommit,
                        inflight \ {op}, tr1)
        /\ lastError' = None
        /\ UNCHANGED <<hydrated, online, retryScheduled, conflictResolver, issued,
                       failuresLeft, dcall, disableOffline, cacheRestore, deferred,
                       rehydrated, ucall>>

\* redux-offline's default retry(action, retries): a delay, or null.
HasRetryDelay(retries) == retries < DecayScheduleLen

\* The transport answers the replay in flight with an error: offlineEffect's
\* error callback, then redux-offline asks discard() and either completes the
\* action with its ROLLBACK or schedules a retry.  `outcome` is what the
\* user's resolver does with this conflict; `handled` is whether this
\* redux-offline build catches an exception thrown by discard() (and then
\* rolls back) or leaves the send unfinished.
ReplayError(error, outcome, handled) ==
    \E op \in inflight :
        /\ IsReplay(op)
        /\ op.doIt
        /\ Len(outbox) > 0
        /\ LET n == op.id
               action == outbox[1]
               decision == discard(conflictResolver, error, action, retryCount, outcome)
               effect1 == discardedEffect(conflictResolver, error, action, retryCount, outcome)
               action1 == [action EXCEPT !.meta.offline.effect = effect1]
               rollback == \/ decision = "DISCARD"
                           \/ decision = "RETRY" /\ ~HasRetryDelay(retryCount)
                           \/ decision = "THROWS" /\ handled
               meta1 == metadataReducer(metadata, [type |-> ROLLBACK])
           IN  /\ decision = "THROWS" \/ handled
               /\ (CCF \in error.graphQLErrors /\ conflictResolver = "function")
                    \/ outcome = "falsy"
               /\ observer' = [observer EXCEPT ![n] = Deliver(@, Error(error))]
               /\ lastError' = [id |-> n, error |-> error, retries |-> retryCount,
                                outcome |-> outcome, decision |-> decision,
                                handled |-> handled]
               /\ IF rollback
                  THEN /\ metadata' = meta1
                       /\ retryCount' = 0
                       /\ retryScheduled' = retryScheduled
                       /\ cache' = cacheAtSend(Dequeue(outbox), FALSE, retryScheduled, online,
                                               meta1, cache)
                       /\ queryManager' = managerAtSend(Dequeue(outbox), FALSE, retryScheduled,
                                                        online, queryManager)
                       /\ Drain(Dequeue(outbox), FALSE, retryScheduled, online, meta1,
                                inflight \ {op}, Mark(trace, n, "rollback"))
                  ELSE IF decision = "RETRY"
                  THEN /\ retryScheduled' = TRUE
                       /\ retryCount' = retryCount + 1
                       /\ busy' = FALSE
                       /\ outbox' = <<action1>> \o Tail(outbox)
                       /\ inflight' = inflight \ {op}
                       /\ UNCHANGED <<metadata, sendOrder, trace, cache, queryManager>>
                  ELSE /\ inflight' = inflight \ {op}
                       /\ trace' = Mark(trace, n, "stuck")
                       /\ UNCHANGED <<metadata, sendOrder, retryScheduled, retryCount,
                                      busy, outbox, cache, queryManager>>
        /\ failuresLeft > 0
        /\ failuresLeft' = failuresLeft - 1
        /\ UNCHANGED <<hydrated, online, conflictResolver, issued, issue, dcall,
                       disableOffline, cacheRestore, deferred, rehydrated, ucall>>

\* The retry delay elapses: OFFLINE_COMPLETE_RETRY.
CompleteRetry ==
    /\ retryScheduled
    /\ retryScheduled' = FALSE
    /\ lastError' = None
    /\ Drain(outbox, busy, FALSE, online, metadata, inflight, trace)
    /\ cache' = cacheAtSend(outbox, busy, FALSE, online, metadata, cache)
    /\ queryManager' = managerAtSend(outbox, busy, FALSE, online, queryManager)
    /\ UNCHANGED <<hydrated, online, retryCount, metadata, conflictResolver,
                   issued, observer, issue, failuresLeft, dcall, disableOffline,
                   cacheRestore, deferred, rehydrated, ucall>>

\* The queue is followed for a store created without a usable resolver
\* (null) and for one created with a user function.
QueueResolvers == {"null", "function"}

Init ==
    /\ hydrated = FALSE
    /\ online = TRUE
    /\ outbox = <<>>
    /\ busy = FALSE
    /\ retryScheduled = FALSE
    /\ retryCount = 0
    /\ metadata = [snapshot |-> [enqueuedMutations |-> 0, cache |-> {}], idsMap |-> EmptyMap]
    /\ cache = {}
    /\ inflight = {}
    /\ conflictResolver \in QueueResolvers
    /\ issued = 0
    /\ observer = [n \in 1..(MaxMutations + 1) |-> <<>>]
    /\ trace = [n \in 1..(MaxMutations + 1) |-> <<>>]
    /\ sendOrder = <<>>
    /\ lastError = None
    /\ issue = [n \in 1..(MaxMutations + 1) |-> None]
    /\ failuresLeft = MaxFailures
    /\ dcall = None
    /\ disableOffline = FALSE
    /\ cacheRestore = FALSE
    /\ deferred = <<>>
    /\ rehydrated = FALSE
    /\ ucall = None
    /\ queryManager = OrigManager

Next ==
    \/ Rehydrate
    \/ \E on \in BOOLEAN : NetworkStatus(on)
    \/ \E in \in MutationInputs(issued + 1) : Mutate(in.optimisticResponse, in.parent)
    \/ \E n \in 1..MaxMutations : \E s \in ServerChoices(n) : ReplaySuccess(s)
    \/ \E e \in TransportErrors, r \in ResolverOutcomes, h \in BOOLEAN : ReplayError(e, r, h)
    \/ CompleteRetry

Spec == Init /\ [][Next]_vars

\* ------------------------------ SpecDiscard: the discard policy on its own
\* One call discard(conflictResolver)(error, action, retries) on an action
\* that enqueueMutation built, for every resolver, error and retry count.
DiscardInputs ==
    [conflictResolver : Resolvers, outcome : ResolverOutcomes, error : AllErrors,
     retries : 0..MaxRetriesIn]

InitDiscard ==
    /\ hydrated = FALSE
    /\ online = TRUE
    /\ outbox = <<>>
    /\ busy = FALSE
    /\ retryScheduled = FALSE
    /\ retryCount = 0
    /\ metadata = [snapshot |-> [enqueuedMutations |-> 0, cache |-> {}], idsMap |-> EmptyMap]
    /\ cache = {}
    /\ inflight = {}
    /\ conflictResolver = "undefined"
    /\ issued = 0
    /\ observer = [n \in 1..(MaxMutations + 1) |-> <<>>]
    /\ trace = [n \in 1..(MaxMutations + 1) |-> <<>>]
    /\ sendOrder = <<>>
    /\ lastError = None
    /\ issue = [n \in 1..(MaxMutations + 1) |-> None]
    /\ failuresLeft = 0
    /\ \E in \in DiscardInputs : dcall = [in |-> in, done |-> FALSE]
    /\ disableOffline = FALSE
    /\ cacheRestore = FALSE
    /\ deferred = <<>>
    /\ rehydrated = FALSE
    /\ ucall = None
    /\ queryManager = OrigManager

DiscardAction == enqueueAction(EnqueuedEffect(1, Variables("x"), Undef))

DiscardCall ==
    /\ ~dcall.done
    /\ dcall' = [in |-> dcall.in,
                 done |-> TRUE,
                 decision |-> discard(dcall.in.conflictResolver, dcall.in.error,
                                      DiscardAction, dcall.in.retries, dcall.in.outcome),
                 effect |-> discardedEffect(dcall.in.conflictResolver, dcall.in.error,
                                            DiscardAction, dcall.in.retries, dcall.in.outcome)]
    /\ UNCHANGED queueVars

NextDiscard == DiscardCall

SpecDiscard == InitDiscard /\ [][NextDiscard]_vars

\* ------------------ SpecFail: a backend that fails every replay, online
\* The network stays online and the transport answers every replay with an
\* error of any kind; a pending replay is eventually answered and a
\* scheduled retry eventually fires.
FailuresCeiling == (RetryCeiling + 2) * (MaxMutations + 1)

InitFail ==
    /\ hydrated = FALSE
    /\ online = TRUE
    /\ outbox = <<>>
    /\ busy = FALSE
    /\ retryScheduled = FALSE
    /\ retryCount = 0
    /\ metadata = [snapshot |-> [enqueuedMutations |-> 0, cache |-> {}], idsMap |-> EmptyMap]
    /\ cache = {}
    /\ inflight = {}
    /\ conflictResolver \in QueueResolvers
    /\ issued = 0
    /\ observer = [n \in 1..(MaxMutations + 1) |-> <<>>]
    /\ trace = [n \in 1..(MaxMutations + 1) |-> <<>>]
    /\ sendOrder = <<>>
    /\ lastError = None
    /\ issue = [n \in 1..(MaxMutations + 1) |-> None]
    /\ failuresLeft = FailuresCeiling
    /\ dcall = None
    /\ disableOffline = FALSE
    /\ cacheRestore = FALSE
    /\ deferred = <<>>
    /\ rehydrated = FALSE
    /\ ucall = None
    /\ queryManager = OrigManager

ReplayFails == \E e \in TransportErrors, r \in ResolverOutcomes, h \in BOOLEAN : ReplayError(e, r, h)

NextFail ==
    \/ Rehydrate
    \/ \E in \in MutationInputs(issued + 1) : Mutate(in.optimisticResponse, in.parent)
    \/ ReplayFails
    \/ CompleteRetry

SpecFail ==
    /\ InitFail
    /\ [][NextFail]_vars
    /\ WF_vars(Rehydrate)
    /\ WF_vars(ReplayFails)
    /\ WF_vars(CompleteRetry)

\* ----------------------- SpecOk: a backend that answers every replay
\* The transport answers every replay with the server's response, and a
\* pending replay is eventually answered; the network status changes freely.
ReplaySucceeds == \E n \in 1..MaxMutations : \E s \in ServerChoices(n) : ReplaySuccess(s)

NextOk ==
    \/ Rehydrate
    \/ \E on \in BOOLEAN : NetworkStatus(on)
    \/ \E in \in MutationInputs(issued + 1) : Mutate(in.optimisticResponse, in.parent)
    \/ ReplaySucceeds

SpecOk ==
    /\ Init
    /\ [][NextOk]_vars
    /\ WF_vars(ReplaySucceeds)

\* -------------------- SpecLink: every kind of operation through the link
\* Queries and mutations, with and without the replay flag, reach the link
\* of a client built with or without offline support; the transport answers
\* forwarded operations and replays, and callers may unsubscribe.

\* A variant of the cleanup below that never reaches the transport.
cancelsTransportNever(path) == FALSE

\* The function request() returns to its subscriber: `() => null` after an
\* offline query and after an enqueue, handle.unsubscribe() after forward.
cancelsTransport(path) == path = "forward"

\* The transport answers an operation request() forwarded: the handlers
\* bound to the caller's observer deliver next and complete.  The next
\* handler of the request() with cache restore first saves the snapshot and
\* the server id of a mutation.
DirectSuccess(serverId) ==
    \E op \in inflight :
        /\ ~IsReplay(op)
        /\ LET n == op.id
               data == Response(serverId)
           IN  /\ serverId \in ServerChoices(n)
               /\ issue' = [issue EXCEPT ![n].serverId = serverId]
               /\ cache' = IF Closed(observer[n]) THEN cache ELSE cache \cup DataIds(data)
               /\ observer' = [observer EXCEPT ![n] =
                      Deliver(Deliver(@, Next_(data)), Complete)]
               /\ metadata' = IF cacheRestore /\ op.type = "mutation"
                              THEN metadataReducer(
                                       metadataReducer(metadata, saveSnapshot(cache)),
                                       saveServerId(op.optimisticResponse, data))
                              ELSE metadata
               /\ inflight' = inflight \ {op}
        /\ lastError' = None
        /\ UNCHANGED <<hydrated, online, outbox, busy, retryScheduled, retryCount,
                       conflictResolver, issued, trace, sendOrder,
                       failuresLeft, dcall, disableOffline, cacheRestore, deferred, rehydrated, ucall, queryManager>>

\* The transport fails an operation request() forwarded: the handler bound
\* to the caller's observer delivers the error.
DirectError(error) ==
    \E op \in inflight :
        /\ ~IsReplay(op)
        /\ observer' = [observer EXCEPT ![op.id] = Deliver(@, Error(error))]
        /\ inflight' = inflight \ {op}
        /\ lastError' = None
        /\ UNCHANGED <<hydrated, online, outbox, busy, retryScheduled, retryCount,
                       metadata, cache, conflictResolver, issued, trace, sendOrder,
                       issue, failuresLeft, dcall, disableOffline, cacheRestore, deferred, rehydrated, ucall, queryManager>>

\* The caller of operation n unsubscribes: its subscription closes and the
\* function request() returned runs.
Unsubscribe(n) ==
    /\ n \in 1..issued
    /\ ~Closed(observer[n])
    /\ observer' = [observer EXCEPT ![n] = Append(@, Unsubscribed)]
    /\ inflight' = IF cancelsTransport(issue[n].path)
                   THEN {op \in inflight : IsReplay(op) \/ op.id # n}
                   ELSE inflight
    /\ lastError' = None
    /\ UNCHANGED <<hydrated, online, outbox, busy, retryScheduled, retryCount,
                   metadata, cache, conflictResolver, issued, trace, sendOrder,
                   issue, failuresLeft, dcall, disableOffline, cacheRestore, deferred, rehydrated, ucall, queryManager>>

\* The n-th operation: a query, or a mutation with or without the replay
\* flag and with or without an optimistic response.
LinkInputs(n) ==
    {[type |-> "query", doIt |-> FALSE, optimisticResponse |-> Undef]}
    \cup [type : {"mutation"}, doIt : BOOLEAN,
          optimisticResponse : {Undef, Response(TempId(n))}]

InitLink ==
    /\ disableOffline \in BOOLEAN
    /\ cacheRestore \in (IF disableOffline THEN {FALSE} ELSE BOOLEAN)
    /\ deferred = <<>>
    /\ rehydrated = FALSE
    /\ ucall = None
    /\ queryManager = OrigManager
    /\ hydrated = disableOffline
    /\ online = TRUE
    /\ outbox = <<>>
    /\ busy = FALSE
    /\ retryScheduled = FALSE
    /\ retryCount = 0
    /\ metadata = [snapshot |-> [enqueuedMutations |-> 0, cache |-> {}], idsMap |-> EmptyMap]
    /\ cache = {}
    /\ inflight = {}
    /\ conflictResolver = "function"
    /\ issued = 0
    /\ observer = [n \in 1..(MaxMutations + 1) |-> <<>>]
    /\ trace = [n \in 1..(MaxMutations + 1) |-> <<>>]
    /\ sendOrder = <<>>
    /\ lastError = None
    /\ issue = [n \in 1..(MaxMutations + 1) |-> None]
    /\ failuresLeft = 0
    /\ dcall = None

NextLink ==
    \/ Rehydrate
    \/ \E on \in BOOLEAN : NetworkStatus(on)
    \/ \E in \in LinkInputs(issued + 1) : Issue(in.type, in.doIt, in.optimisticResponse, "x")
    \/ DispatchEnqueue
    \/ ReplaySucceeds
    \/ \E n \in 1..MaxMutations : \E s \in ServerChoices(n) : DirectSuccess(s)
    \/ \E e \in TransportErrors : DirectError(e)
    \/ \E n \in 1..MaxMutations : Unsubscribe(n)

SpecLink == InitLink /\ [][NextLink]_vars

\* ------------------------- SpecHydrate: start-up with a persisted queue
\* The store is rehydrated with the queue a previous session left, or with
\* nothing, before the hydrated promise resolves; the network status
\* changes, mutations are issued and replays are answered meanwhile.
InitHydrate ==
    /\ hydrated = FALSE
    /\ rehydrated = FALSE
    /\ ucall = None
    /\ queryManager = OrigManager
    /\ online \in BOOLEAN
    /\ outbox = <<>>
    /\ busy = FALSE
    /\ retryScheduled = FALSE
    /\ retryCount = 0
    /\ metadata = [snapshot |-> [enqueuedMutations |-> 0, cache |-> {}], idsMap |-> EmptyMap]
    /\ cache = {}
    /\ inflight = {}
    /\ conflictResolver = "function"
    /\ issued = 0
    /\ observer = [n \in 1..(MaxMutations + 1) |-> <<>>]
    /\ trace = [n \in 1..(MaxMutations + 1) |-> <<>>]
    /\ sendOrder = <<>>
    /\ lastError = None
    /\ issue = [n \in 1..(MaxMutations + 1) |-> None]
    /\ failuresLeft = 0
    /\ dcall = None
    /\ disableOffline = FALSE
    /\ cacheRestore \in BOOLEAN
    /\ deferred = <<>>

NextHydrate ==
    \/ \E k \in 1..MaxMutations : PersistRehydrate(k)
    \/ Rehydrate
    \/ \E on \in BOOLEAN : NetworkStatus(on)
    \/ \E in \in MutationInputs(issued + 1) : Mutate(in.optimisticResponse, in.parent)
    \/ DispatchEnqueue
    \/ ReplaySucceeds

SpecHydrate == InitHydrate /\ [][NextHydrate]_vars

\* ------------------- SpecMap: the identifier map over a queue of three
\* Up to MaxQueued mutations that name each other's entities are issued to
\* an online client; the transport answers each replay with data or with a
\* backend error that discards it.
DiscardingError == [graphQLErrors |-> {BackendError}, networkErrors |-> {}, permanent |-> FALSE]

InitMap ==
    /\ hydrated = TRUE
    /\ online = TRUE
    /\ outbox = <<>>
    /\ busy = FALSE
    /\ retryScheduled = FALSE
    /\ retryCount = 0
    /\ metadata = [snapshot |-> [enqueuedMutations |-> 0, cache |-> {}], idsMap |-> EmptyMap]
    /\ cache = {}
    /\ inflight = {}
    /\ conflictResolver = "function"
    /\ issued = 0
    /\ observer = [n \in 1..(MaxQueued + 1) |-> <<>>]
    /\ trace = [n \in 1..(MaxQueued + 1) |-> <<>>]
    /\ sendOrder = <<>>
    /\ lastError = None
    /\ issue = [n \in 1..(MaxQueued + 1) |-> None]
    /\ failuresLeft = 1
    /\ dcall = None
    /\ disableOffline = FALSE
    /\ cacheRestore = FALSE
    /\ deferred = <<>>
    /\ rehydrated = TRUE
    /\ ucall = None
    /\ queryManager = OrigManager

\* The inputs of the n-th mutation, and one more: an optimistic response
\* whose entity carries an id that is not UUID-shaped.
MapInputs(n) ==
    MutationInputs(n) \cup {[optimisticResponse |-> Response(ServerPlainId(n)), parent |-> "x"]}

NextMap ==
    \/ \E in \in MapInputs(issued + 1) :
          IssueWithin(MaxQueued, "mutation", FALSE, in.optimisticResponse, in.parent)
    \/ \E n \in 1..MaxQueued : ReplaySuccess(ServerUuid(n))
    \/ ReplayError(DiscardingError, "falsy", TRUE)

SpecMap == InitMap /\ [][NextMap]_vars

\* ------------------- SpecBroadcast: replays through the request() with
\* cache restore
\* The client is hydrated and online and its link is the request() that
\* restores the cache snapshot; the transport answers a replay with data or
\* with an error, after which the effect is discarded or retried.
InitBroadcast ==
    /\ hydrated = TRUE
    /\ online = TRUE
    /\ outbox = <<>>
    /\ busy = FALSE
    /\ retryScheduled = FALSE
    /\ retryCount = 0
    /\ metadata = [snapshot |-> [enqueuedMutations |-> 0, cache |-> {}], idsMap |-> EmptyMap]
    /\ cache = {}
    /\ inflight = {}
    /\ conflictResolver = "function"
    /\ issued = 0
    /\ observer = [n \in 1..(MaxMutations + 1) |-> <<>>]
    /\ trace = [n \in 1..(MaxMutations + 1) |-> <<>>]
    /\ sendOrder = <<>>
    /\ lastError = None
    /\ issue = [n \in 1..(MaxMutations + 1) |-> None]
    /\ failuresLeft = MaxFailures
    /\ dcall = None
    /\ disableOffline = FALSE
    /\ cacheRestore = TRUE
    /\ deferred = <<>>
    /\ rehydrated = TRUE
    /\ ucall = None
    /\ queryManager = OrigManager

NextBroadcast ==
    \/ \E in \in MutationInputs(issued + 1) : Mutate(in.optimisticResponse, in.parent)
    \/ DispatchEnqueue
    \/ ReplaySucceeds
    \/ ReplayFails
    \/ CompleteRetry

SpecBroadcast == InitBroadcast /\ [][NextBroadcast]_vars

\* ------------------- SpecUtils: the utility functions called on their own
\* The values the functions are called with: scalars, among them the
\* temporary ids and a string that names a property of Object.prototype, and
\* objects and arrays of them nested up to MaxDepth levels; the identifier
\* maps of a queue with two temporary ids.
MaxDepth == 2

UtilScalars == {Str("T1"), Str("T2"), Str("x"), Str("constructor"), Null}

RECURSIVE UtilValues(_)
UtilValues(depth) ==
    IF depth = 0 THEN UtilScalars
    ELSE LET sub == UtilValues(depth - 1)
         IN  sub \cup {Arr(<<v>>) : v \in sub}
                 \cup {Obj(("a" :> v)) : v \in sub}
                 \cup {Obj(("a" :> v) @@ ("b" :> Arr(<<Str("T2"), w>>))) :
                          v \in UtilScalars, w \in UtilScalars}

UtilMaps ==
    {EmptyMap,
     ("T1" :> NULL),
     ("T1" :> "S1"),
     ("T1" :> "S1") @@ ("T2" :> NULL),
     ("T1" :> "S1") @@ ("T2" :> "S2")}

appVars == <<hydrated, online, outbox, busy, retryScheduled, retryCount, metadata,
             cache, inflight, conflictResolver, issued, observer, trace, sendOrder,
             lastError, issue, failuresLeft, dcall, disableOffline, cacheRestore,
             deferred, rehydrated, queryManager>>

InitUtils ==
    /\ hydrated = FALSE
    /\ online = FALSE
    /\ outbox = <<>>
    /\ busy = FALSE
    /\ retryScheduled = FALSE
    /\ retryCount = 0
    /\ metadata = [snapshot |-> [enqueuedMutations |-> 0, cache |-> {}], idsMap |-> EmptyMap]
    /\ cache = {}
    /\ inflight = {}
    /\ conflictResolver = "null"
    /\ issued = 0
    /\ observer = [n \in 1..(MaxMutations + 1) |-> <<>>]
    /\ trace = [n \in 1..(MaxMutations + 1) |-> <<>>]
    /\ sendOrder = <<>>
    /\ lastError = None
    /\ issue = [n \in 1..(MaxMutations + 1) |-> None]
    /\ failuresLeft = 0
    /\ dcall = None
    /\ disableOffline = FALSE
    /\ cacheRestore = FALSE
    /\ deferred = <<>>
    /\ rehydrated = FALSE
    /\ ucall = None
    /\ queryManager = OrigManager

\* Each behaviour is one call: it starts when none has started yet.
NotCalled == ucall = None
Running == ucall.k = "walk" /\ ucall.status = "running"

\* replaceUsingMap(obj, map) is called and returns.
ReplaceCall(obj, map) ==
    /\ NotCalled
    /\ ucall' = [k |-> "replaceUsingMap", obj |-> obj, map |-> map,
                 result |-> replaceUsingMap(obj, map)]
    /\ UNCHANGED appVars

\* The trees getIds is called with: entities with a UUID-shaped id, with an
\* id of another format, objects for which the identity function yields
\* null (no __typename, or no id), null and undefined; nested under a field,
\* under another entity, and as elements of an array.
TreeLeaves ==
    {Null, Obj(("id" :> Str("T1"))), Obj(("__typename" :> Str("Item")))}
        \cup {Entity(id) : id \in {"T1", "S2", "N1"}}
TreeNodes ==
    TreeLeaves \cup {Obj(e.f @@ ("child" :> l)) : e \in TreeLeaves \ {Null}, l \in TreeLeaves}
UtilTrees ==
    {Undef} \cup TreeNodes
            \cup {Obj(("add" :> n)) : n \in TreeNodes}
            \cup {Obj(("list" :> Arr(<<n, m>>))) : n \in TreeLeaves, m \in TreeLeaves}

\* getIds(dataIdFromObject, obj) is called twice in a row on the same tree.
GetIdsCall(obj) ==
    /\ NotCalled
    /\ ucall' = [k |-> "getIds", obj |-> obj, result |-> getIds(obj),
                 after |-> treeAfterGetIds(obj),
                 again |-> getIds(treeAfterGetIds(obj))]
    /\ UNCHANGED appVars

\* Objects that can refer to each other.  A heap maps each of MaxObjects
\* addresses to an object with the keys `id` (a scalar) and `next` (null, a
\* reference to an object, or a one-element array of a reference or a
\* scalar); a reference may point back to an object that leads to it.
MaxObjects == 2
\* The frames the engine's call stack holds before it throws a RangeError.
MaxStack == 4

Ref(a) == [k |-> "ref", a |-> a]
HeapObjects == 1..MaxObjects
HeapKeys == <<"id", "next">>
HeapObject ==
    {("id" :> i) @@ ("next" :> n) :
        i \in {Str("T1"), Str("x")},
        n \in {Null, Arr(<<Str("T1")>>)} \cup {Ref(a) : a \in HeapObjects}
              \cup {Arr(<<Ref(a)>>) : a \in HeapObjects}}
UtilHeaps == [HeapObjects -> HeapObject]

\* Object.keys(obj).forEach: one slot per key, and one per element of an
\* array value (val.map).
Slots(object) ==
    LET slotsOf(key) ==
            IF object[key].k = "arr"
            THEN [i \in DOMAIN object[key].e |-> [key |-> key, i |-> i]]
            ELSE <<[key |-> key, i |-> 0]>>
    IN  slotsOf(HeapKeys[1]) \o slotsOf(HeapKeys[2])
SlotValue(object, slot) ==
    IF slot.i = 0 THEN object[slot.key] ELSE object[slot.key].e[slot.i]
SlotWrite(object, slot, v) ==
    IF slot.i = 0 THEN [object EXCEPT ![slot.key] = v]
    ELSE [object EXCEPT ![slot.key] = Arr([@.e EXCEPT ![slot.i] = v])]

\* A variant of the recursion below that does not enter an object a second
\* time while it is being walked.
EntersGuarded(stack, a) == \A i \in DOMAIN stack : stack[i].obj # a

\* replaceUsingMap(val, map) for an object val: the recursion enters it.
Enters(stack, a) == TRUE

\* replaceUsingMap(root, map) is called on an object of the heap: the first
\* frame is on the stack.
ReplaceStart(heap, root, map) ==
    /\ NotCalled
    /\ ucall' = [k |-> "walk", status |-> "running", heap |-> heap, heap0 |-> heap,
                 root |-> root, map |-> map,
                 stack |-> <<[obj |-> root, todo |-> Slots(heap[root])]>>]
    /\ UNCHANGED appVars

\* One step of the running call: the frame on top handles its next key (a
\* scalar is looked up and replaced in place, an object is entered by a
\* recursive call) or, with no key left, returns to its caller.
ReplaceStep ==
    /\ Running
    /\ LET stack == ucall.stack
           top == stack[Len(stack)]
           below == SubSeq(stack, 1, Len(stack) - 1)
       IN  IF top.todo = <<>>
           THEN ucall' = [ucall EXCEPT !.stack = below,
                                       !.status = IF below = <<>> THEN "returned" ELSE @]
           ELSE LET slot == Head(top.todo)
                    val == SlotValue(ucall.heap[top.obj], slot)
                    rest == Append(below, [top EXCEPT !.todo = Tail(@)])
                IN  IF val.k = "ref"
                    THEN IF ~Enters(rest, val.a)
                         THEN ucall' = [ucall EXCEPT !.stack = rest]
                         ELSE IF Len(rest) = MaxStack
                         THEN ucall' = [ucall EXCEPT !.status = "RangeError"]
                         ELSE ucall' = [ucall EXCEPT !.stack =
                                 Append(rest, [obj |-> val.a,
                                               todo |-> Slots(ucall.heap[val.a])])]
                    ELSE ucall' = [ucall EXCEPT
                            !.stack = rest,
                            !.heap[top.obj] = SlotWrite(@, slot, replaceUsingMap(val, ucall.map))]
    /\ UNCHANGED appVars

NextUtils ==
    \/ \E obj \in UtilValues(MaxDepth), map \in UtilMaps : ReplaceCall(obj, map)
    \/ \E heap \in UtilHeaps, map \in UtilMaps : ReplaceStart(heap, 1, map)
    \/ \E obj \in UtilTrees : GetIdsCall(obj)
    \/ ReplaceStep

SpecUtils == InitUtils /\ [][NextUtils]_vars

\* The engine keeps running a call that has started.
SpecUtilsLive == SpecUtils /\ WF_vars(ReplaceStep)

\* ============================================================= properties
Has(tr, ev) == \E i \in 1..Len(tr) : tr[i] = ev
Pos(tr, ev) == CHOOSE i \in 1..Len(tr) : tr[i] = ev
Terminal(n) == Has(trace[n], "commit") \/ Has(trace[n], "rollback")
Issued == 1..issued

\* C1: a first-issuance mutation handled while offline delivers to its caller
\* exactly the optimistic response it supplied (an object with null for the
\* selection set's field when it supplied none), then completes, and nothing
\* else afterwards; the operation reaches the transport only after that.
C1_OfflineEmitsOptimistic ==
    \A n \in Issued :
        ~issue[n].online =>
            /\ observer[n] =
                 << [t |-> "next",
                     d |-> IF issue[n].optimisticResponse = Undef
                           THEN Obj(("add" :> Null))
                           ELSE issue[n].optimisticResponse],
                    [t |-> "complete"] >>
            /\ Has(trace[n], "emit")
            /\ Has(trace[n], "send") => Pos(trace[n], "emit") < Pos(trace[n], "send")

\* An offline mutation with an optimistic response and one without were both
\* answered, and the first has since been replayed.
C1_Witness ==
    \E n, m \in Issued :
        /\ ~issue[n].online /\ issue[n].optimisticResponse # Undef
        /\ Has(trace[n], "send")
        /\ ~issue[m].online /\ issue[m].optimisticResponse = Undef
        /\ Len(observer[m]) = 2

\* C2: replays start in enqueue order, one after the other: the first sends
\* of the mutations are 1, 2, ... in that order, a replay of a mutation is
\* sent only when every mutation enqueued before it has been committed or
\* rolled back, and no mutation is committed or rolled back unsent.
C2_ReplayInEnqueueOrder ==
    /\ \A i \in 1..Len(sendOrder) : sendOrder[i] = i
    /\ \A n \in Issued :
          /\ Has(trace[n], "send") => \A m \in 1..(n - 1) : Has(trace[m], "send")
          /\ Terminal(n) => Has(trace[n], "send")
    /\ \A op \in inflight : \A m \in 1..(op.id - 1) : Terminal(m)

\* The second mutation is being replayed after the first was committed, both
\* having been in the queue together.
C2_Witness ==
    /\ issued >= 2
    /\ 1 \in issue[2].behind
    /\ Has(trace[1], "commit")
    /\ \E op \in inflight : op.id = 2

\* C3: at most one operation is in flight, it is a replay (doIt) of the head
\* of the outbox, and the queue is marked busy while it is.
C3_OneInFlight ==
    /\ Cardinality(inflight) <= 1
    /\ \A op \in inflight :
          /\ op.doIt
          /\ busy
          /\ Len(outbox) > 0
          /\ outbox[1].meta.offline.effect.id = op.id

\* A mutation issued online while the first is in flight waits in the queue.
C3_Witness ==
    /\ issued >= 2
    /\ issue[2].online
    /\ Len(outbox) = 2
    /\ \E op \in inflight : op.id = 1
    /\ ~Has(trace[2], "send")

\* C4: a child queued behind its parent, whose variables name the temporary
\* id of the parent's optimistic response, is replayed after the parent's
\* commit with the server's id for the parent in place of the temporary one.
C4_ChildSendsServerId ==
    \A op \in inflight :
        ( /\ op.doIt
          /\ op.id > 1
          /\ issue[1].optimisticResponse = Response(TempId(1))
          /\ issue[op.id].parent = TempId(1)
          /\ 1 \in issue[op.id].behind
          /\ Has(trace[1], "commit") )
        => op.variables = Variables(issue[1].serverId)

\* C5: after a conflict on which the resolver returns replacement variables
\* the effect stays at the head of the queue for a retry, and its next replay
\* sends exactly those variables.
C5_RetryWithResolvedVariables ==
    ( /\ lastError # None
      /\ CCF \in lastError.error.graphQLErrors
      /\ conflictResolver = "function"
      /\ lastError.outcome = "variables" )
    => /\ lastError.decision = "RETRY"
       /\ Len(outbox) > 0
       /\ outbox[1].meta.offline.effect.id = lastError.id
       /\ offlineEffect(outbox[1].meta.offline.effect, metadata.idsMap).variables
            = ResolvedVariables

\* C6: after a conflict on which the resolver returns 'DISCARD' the decision
\* is DISCARD, the effect has left the queue by a rollback, and the caller
\* of the mutation received the original error.
C6_DiscardSentinelRollsBack ==
    ( /\ lastError # None
      /\ CCF \in lastError.error.graphQLErrors
      /\ conflictResolver = "function"
      /\ lastError.outcome = "DISCARD" )
    => /\ lastError.decision = "DISCARD"
       /\ Has(trace[lastError.id], "rollback")
       /\ \A i \in 1..Len(outbox) : outbox[i].meta.offline.effect.id # lastError.id
       /\ observer[lastError.id] = <<Error(lastError.error)>>

\* C7: on a conflict, a store created without a conflict resolver (undefined
\* or null) decides DISCARD, at every retry count.
C7_NoResolverDiscards ==
    ( /\ dcall # None
      /\ dcall.done
      /\ CCF \in dcall.in.error.graphQLErrors
      /\ dcall.in.conflictResolver \in {"undefined", "null"} )
    => dcall.decision = "DISCARD"

\* C8: on a conflict on which the user's resolver throws, discard returns
\* DISCARD; no exception leaves it.
C8_ThrowingResolverDiscards ==
    ( /\ dcall # None
      /\ dcall.done
      /\ CCF \in dcall.in.error.graphQLErrors
      /\ dcall.in.conflictResolver = "function"
      /\ dcall.in.outcome = "throws" )
    => dcall.decision = "DISCARD"

\* C9: an error whose GraphQL errors hold no conflict, and a network error
\* (no GraphQL errors of its own) that carries an 'AWSAppSyncClient:' error,
\* are decided DISCARD whatever the retry count, error.permanent and the
\* resolver.
C9_BackendAndClientErrorsDiscard ==
    ( /\ dcall # None
      /\ dcall.done
      /\ \/ /\ dcall.in.error.graphQLErrors # {}
            /\ CCF \notin dcall.in.error.graphQLErrors
         \/ /\ dcall.in.error.graphQLErrors = {}
            /\ \E t \in dcall.in.error.networkErrors : StartsWithClientTag(t) )
    => dcall.decision = "DISCARD"

\* A client-tagged network error, not permanent, on the first failure, was
\* decided DISCARD.
C9_Witness ==
    /\ dcall # None
    /\ dcall.done
    /\ dcall.in.error.graphQLErrors = {}
    /\ ClientError \in dcall.in.error.networkErrors
    /\ ~dcall.in.error.permanent
    /\ dcall.in.retries = 0
    /\ dcall.decision = "DISCARD"

\* C10: for a transient error (no GraphQL errors, no client-tagged network
\* error) the decision is RETRY exactly when error.permanent is unset and
\* the retry count is at most 10, and DISCARD otherwise.
C10_TransientRule ==
    ( /\ dcall # None
      /\ dcall.done
      /\ dcall.in.error.graphQLErrors = {}
      /\ ~\E t \in dcall.in.error.networkErrors : StartsWithClientTag(t) )
    => /\ dcall.decision \in {"RETRY", "DISCARD"}
       /\ dcall.decision = "RETRY"
            <=> (~dcall.in.error.permanent /\ dcall.in.retries <= 10)

\* A transient error that is not permanent was decided RETRY at the tenth
\* retry.
C10_Witness ==
    /\ dcall # None
    /\ dcall.done
    /\ dcall.in.error.graphQLErrors = {}
    /\ dcall.in.error.networkErrors = {OtherNetError}
    /\ ~dcall.in.error.permanent
    /\ dcall.in.retries = 10
    /\ dcall.decision = "RETRY"

InOutbox(n) == \E i \in 1..Len(outbox) : outbox[i].meta.offline.effect.id = n

\* C12: with the network online and a backend that fails every replay,
\* every mutation that is in the queue eventually leaves it.
C12_EveryEffectLeavesQueue ==
    \A n \in 1..MaxMutations : InOutbox(n) ~> ~InOutbox(n)

\* C13: every mutation that left the queue by a rollback has had an error
\* delivered to its caller's observer, however it was issued.
C13_DiscardNotifiesCaller ==
    \A n \in Issued :
        Has(trace[n], "rollback")
            => \E i \in 1..Len(observer[n]) : observer[n][i].t = "error"

IsError(o) == Len(o) = 1 /\ o[1].t = "error"

\* C14: a mutation issued online is delivered nothing at enqueue time; if
\* no replay of it has failed, its caller has received nothing until its
\* commit and after it exactly the server's response followed by complete;
\* if a replay of it failed, its caller received that error and nothing else.
C14_OnlineCallerGetsServerResponse ==
    \A n \in Issued :
        issue[n].online =>
            /\ ~Has(trace[n], "emit")
            /\ \/ observer[n] = <<>> /\ ~Has(trace[n], "commit")
               \/ /\ observer[n] = <<Next_(Response(issue[n].serverId)), Complete>>
                  /\ Has(trace[n], "commit")
               \/ IsError(observer[n])

\* A mutation issued online with an optimistic response was committed and
\* its caller holds the server's response.
C14_Witness ==
    \E n \in Issued :
        /\ issue[n].online
        /\ issue[n].optimisticResponse # Undef
        /\ Has(trace[n], "commit")
        /\ observer[n] = <<Next_(Response(issue[n].serverId)), Complete>>

\* C14 as stated: whenever a mutation issued online is committed, its caller
\* has received the server's response followed by complete.
C14_Original ==
    \A n \in Issued :
        (issue[n].online /\ Has(trace[n], "commit"))
            => observer[n] = <<Next_(Response(issue[n].serverId)), Complete>>

\* C15: a mutation issued offline is in the outbox until it is committed;
\* and if the network is eventually online for good while every replay
\* succeeds, then eventually, for good, every issued mutation is committed,
\* the outbox is empty and the pending count is 0.
C15_OfflineMutationsCommitted ==
    /\ [](\A n \in Issued :
            ~issue[n].online => (InOutbox(n) \/ Has(trace[n], "commit")))
    /\ (<>[]online)
         => <>[]( /\ outbox = <<>>
                  /\ metadata.snapshot.enqueuedMutations = 0
                  /\ \A n \in Issued : Has(trace[n], "commit") )

\* Two mutations issued offline were committed after the network came back
\* and the queue is empty.
C15_Witness ==
    /\ issued = 2
    /\ \A n \in Issued : ~issue[n].online /\ Has(trace[n], "commit")
    /\ online
    /\ outbox = <<>>
    /\ metadata.snapshot.enqueuedMutations = 0

OutboxIds(ob) == [i \in 1..Len(ob) |-> ob[i].meta.offline.effect.id]

\* C16: a replay starts only in a step that leaves the network online, and
\* never for a mutation already committed; while offline no replay starts;
\* and the step that brings the network back online, with a queue that is
\* neither busy nor waiting for a retry, keeps the queue as it is and starts
\* the replay of its head.
C16_OfflineSuspendsDrain ==
    [][ /\ \A op \in inflight' \ inflight :
              /\ online'
              /\ op.doIt
              /\ ~Has(trace'[op.id], "commit")
              /\ OutboxIds(outbox')[1] = op.id
        /\ (~online /\ online' /\ Len(outbox) > 0 /\ ~busy /\ ~retryScheduled)
              => /\ OutboxIds(outbox') = OutboxIds(outbox)
                 /\ \E op \in inflight' \ inflight : op.id = OutboxIds(outbox)[1]
      ]_vars

\* The network went offline after the first of two queued mutations was
\* sent: the first is committed, the second waits unsent at the head.
C16_Witness ==
    /\ ~online
    /\ issued = 2
    /\ issue[2].online
    /\ Has(trace[1], "commit")
    /\ OutboxIds(outbox) = <<2>>
    /\ ~Has(trace[2], "send")
    /\ inflight = {}

\* C17: the step in which a mutation carrying the replay flag reaches the
\* link of a client with offline support puts that operation in flight at
\* the transport and leaves the outbox, the pending count, the snapshot and
\* the identifier map as they were, online or offline.
C17_ReplayFlagForwards ==
    [][ ( /\ issued' = issued + 1
          /\ ~disableOffline
          /\ issue'[issued'].type = "mutation"
          /\ issue'[issued'].doIt )
        => /\ outbox' = outbox
           /\ metadata' = metadata
           /\ observer' = observer
           /\ \E op \in inflight' \ inflight : op.id = issued' /\ op.doIt
           /\ trace'[issued'] = <<"send">>
      ]_vars

\* A mutation carrying the replay flag was forwarded while the network was
\* offline and another mutation was waiting in the queue.
C17_Witness ==
    \E n \in Issued :
        /\ ~disableOffline
        /\ issue[n].type = "mutation"
        /\ issue[n].doIt
        /\ ~issue[n].online
        /\ \E op \in inflight : op.id = n
        /\ Len(outbox) = 1
        /\ ~InOutbox(n)

\* C18: with a client built with disableOffline = true the outbox stays
\* empty, the pending count, the snapshot and the identifier map stay as
\* they were built, and every mutation is sent to the transport and nothing
\* else: the only data its caller is given is the response of the server,
\* and the only error the error of the server.
C18_DisabledForwardsEverything ==
    disableOffline =>
        /\ outbox = <<>>
        /\ ~busy
        /\ metadata = [snapshot |-> [enqueuedMutations |-> 0, cache |-> {}],
                       idsMap |-> EmptyMap]
        /\ \A n \in Issued :
               issue[n].type = "mutation" =>
                   /\ trace[n] = <<"send">>
                   /\ \A i \in 1..Len(observer[n]) :
                          \/ /\ observer[n][i] = Next_(Response(issue[n].serverId))
                             /\ issue[n].serverId \in ServerChoices(n)
                          \/ observer[n][i] = Complete
                          \/ observer[n][i] \in {Error(e) : e \in TransportErrors}
                          \/ observer[n][i] = Unsubscribed

\* A client without offline support issued a mutation with an optimistic
\* response while the network was offline, and its caller holds the
\* response of the server.
C18_Witness ==
    \E n \in Issued :
        /\ disableOffline
        /\ issue[n].type = "mutation"
        /\ ~issue[n].online
        /\ issue[n].optimisticResponse # Undef
        /\ observer[n] = <<Next_(Response(issue[n].serverId)), Complete>>

\* C19: a query that reached the link of a client with offline support
\* while the network was offline was given the data read from the
\* normalized cache, once, and the completion right after it; it is not in
\* flight at the transport, it was never sent, and its caller is given
\* nothing else afterwards.
C19_OfflineQueryFromCache ==
    \A n \in Issued :
        (issue[n].type = "query" /\ ~issue[n].online /\ ~disableOffline) =>
            /\ observer[n] = <<Next_(processOfflineQuery(issue[n].cache)), Complete>>
            /\ trace[n] = <<"emit">>
            /\ \A op \in inflight : IsReplay(op) \/ op.id # n
            /\ \A i \in 1..Len(sendOrder) : sendOrder[i] # n

\* A query was answered offline from a cache that holds data, and the
\* network came back and the queue drained after it.
C19_Witness ==
    \E n \in Issued :
        /\ ~disableOffline
        /\ issue[n].type = "query"
        /\ ~issue[n].online
        /\ issue[n].cache # {}
        /\ observer[n] = <<Next_(processOfflineQuery(issue[n].cache)), Complete>>
        /\ online
        /\ outbox = <<>>

\* C20: the step in which the caller of an operation unsubscribes leaves
\* the outbox, the pending count, the busy flag and the replays in flight as
\* they were; when the operation had been forwarded to the transport, it is
\* no longer in flight there after the step.
C20_UnsubscribeKeepsEffect ==
    [][ \A n \in Issued :
          ( /\ ~Closed(observer[n])
            /\ observer'[n] = Append(observer[n], Unsubscribed) )
          => /\ outbox' = outbox
             /\ metadata' = metadata
             /\ busy' = busy
             /\ {op \in inflight' : IsReplay(op)} = {op \in inflight : IsReplay(op)}
             /\ issue[n].path = "forward"
                    => \A op \in inflight' : IsReplay(op) \/ op.id # n
      ]_vars

\* The caller of an enqueued mutation unsubscribed before its replay and
\* the mutation was committed afterwards, and the caller of a forwarded
\* operation unsubscribed while the transport had not answered.
C20_Witness ==
    \E n, m \in Issued :
        /\ issue[n].path = "enqueue"
        /\ Len(observer[n]) > 0
        /\ observer[n][Len(observer[n])] = Unsubscribed
        /\ Has(trace[n], "commit")
        /\ ~InOutbox(n)
        /\ issue[m].path = "forward"
        /\ observer[m] = <<Unsubscribed>>
        /\ issue[m].serverId = ""

\* The four states of the effect of mutation n: waiting in the outbox,
\* being processed at its head, committed, discarded.
Queued(n) == InOutbox(n) /\ ~(busy /\ outbox[1].meta.offline.effect.id = n)
InFlight(n) == Len(outbox) > 0 /\ busy /\ outbox[1].meta.offline.effect.id = n
Committed(n) == Has(trace[n], "commit")
Discarded(n) == Has(trace[n], "rollback")
EffectState(n) ==
    IF Queued(n) THEN "queued"
    ELSE IF InFlight(n) THEN "in-flight"
    ELSE IF Committed(n) THEN "committed"
    ELSE IF Discarded(n) THEN "discarded"
    ELSE "none"

\* C21: the effect of every enqueued mutation is in exactly one of the
\* states queued, in-flight, committed and discarded, and it is in the
\* outbox exactly when it is neither committed nor discarded; it moves only
\* from queued to in-flight, from in-flight to committed or discarded, and
\* from in-flight back to queued when a retry is scheduled.
C21_EffectStateMachine ==
    /\ [](\A n \in 1..MaxMutations :
            Has(trace[n], "enqueue") =>
                /\ Cardinality({st \in {"queued", "in-flight", "committed", "discarded"} :
                        \/ st = "queued" /\ Queued(n)
                        \/ st = "in-flight" /\ InFlight(n)
                        \/ st = "committed" /\ Committed(n)
                        \/ st = "discarded" /\ Discarded(n)}) = 1
                /\ InOutbox(n) <=> ~(Committed(n) \/ Discarded(n)))
    /\ [][\A n \in 1..MaxMutations :
            EffectState(n)' # EffectState(n) =>
                \/ EffectState(n) = "none" /\ EffectState(n)' \in {"queued", "in-flight"}
                \/ EffectState(n) = "queued" /\ EffectState(n)' = "in-flight"
                \/ EffectState(n) = "in-flight" /\ EffectState(n)' \in {"committed", "discarded"}
                \/ EffectState(n) = "in-flight" /\ EffectState(n)' = "queued"
                     /\ retryScheduled' /\ ~retryScheduled
       ]_vars

\* One effect was committed and another discarded, after one more replay
\* had failed and been retried.
C21_Witness ==
    \E n, m \in Issued :
        /\ Committed(n)
        /\ Discarded(m)
        /\ outbox = <<>>
        /\ failuresLeft = 0

\* C22: in the step in which the ENQUEUE action of a first-issuance
\* mutation reaches the store, when that mutation arrived at a pending
\* count of 0, SAVE_SNAPSHOT was dispatched for it before, and the stored
\* snapshot is the cache content as it was when the mutation arrived.
C22_SnapshotBeforeEnqueue ==
    [][ \A n \in 1..MaxMutations :
          ( /\ Has(trace'[n], "enqueue")
            /\ ~Has(trace[n], "enqueue")
            /\ ~issue'[n].doIt
            /\ issue'[n].pending = 0 )
          => /\ Has(trace'[n], "snapshot")
             /\ Pos(trace'[n], "snapshot") < Pos(trace'[n], "enqueue")
             /\ metadata'.snapshot.cache = issue'[n].cache
      ]_vars

\* C23: a step that starts with at least one effect pending leaves the
\* stored cache snapshot as it was, and a step that changes the stored
\* snapshot is one in which the pending count goes from 0 to 1.
C23_SnapshotFrozenWhilePending ==
    [][ /\ metadata.snapshot.enqueuedMutations > 0
            => metadata'.snapshot.cache = metadata.snapshot.cache
        /\ metadata'.snapshot.cache # metadata.snapshot.cache
            => /\ metadata.snapshot.enqueuedMutations = 0
               /\ metadata'.snapshot.enqueuedMutations = 1
      ]_vars

\* The entities the server has confirmed: those of the responses it gave,
\* and those of the optimistic results of committed effects.
ServerConfirmed ==
    UNION {DataIds(Response(issue[n].serverId)) : n \in {i \in Issued : issue[i].serverId # ""}}
    \cup UNION {DataIds(enqueueMutationResult(issue[n].optimisticResponse)) :
                   n \in {i \in Issued : Committed(i)}}

\* C24: every entity of the stored cache snapshot is server-confirmed: none
\* of them is in the cache only because of the optimistic response of an
\* effect that has not been committed.
C24_SnapshotServerConfirmed ==
    metadata.snapshot.cache \subseteq ServerConfirmed

\* C25: whenever the pending count is 0 the identifier map is empty,
\* whether the last effect was committed or rolled back.
C25_EmptyQueueEmptyMap ==
    metadata.snapshot.enqueuedMutations = 0 => metadata.idsMap = EmptyMap

\* C26: a step that leaves the queue non-empty keeps every entry of the
\* identifier map that holds a server identifier as it is; and the replay
\* of a mutation whose parentId was already mapped when the mutation arrived
\* is sent with the mapped server identifier.
C26_MappingIsStable ==
    [][ /\ metadata'.snapshot.enqueuedMutations > 0
            => \A t \in DOMAIN metadata.idsMap :
                   metadata.idsMap[t] # NULL
                   => /\ t \in DOMAIN metadata'.idsMap
                      /\ metadata'.idsMap[t] = metadata.idsMap[t]
        /\ \A op \in inflight' \ inflight :
               (/\ IsReplay(op)
                /\ issue'[op.id].parent \in DOMAIN issue'[op.id].idsMap
                /\ issue'[op.id].idsMap[issue'[op.id].parent] # NULL)
               => op.variables = Variables(issue'[op.id].idsMap[issue'[op.id].parent])
      ]_vars

\* C27: as long as the hydrated promise has not resolved, no operation is
\* in flight at the transport, no replay has been sent, and no operation
\* has passed the link: nothing was enqueued or deferred in this session.
C27_NothingSentBeforeHydration ==
    ~hydrated =>
        /\ inflight = {}
        /\ sendOrder = <<>>
        /\ deferred = <<>>
        /\ \A n \in DOMAIN trace : ~Has(trace[n], "send")
        /\ \A n \in Issued : ~issue[n].online /\ observer[n][Len(observer[n])] = Complete

\* The store was rehydrated with a persisted queue while online, so that
\* offlineEffect was called for its head, and the hydrated promise has not
\* resolved yet.
C27_Witness ==
    /\ rehydrated
    /\ ~hydrated
    /\ online
    /\ busy
    /\ Len(outbox) = MaxMutations

\* The replay that waited for the hydrated promise was sent after it.
C27_WitnessSent ==
    /\ hydrated
    /\ \E op \in inflight : IsReplay(op) /\ ~issue[op.id].online /\ issue[op.id].pending = 0
    /\ issued = MaxMutations
    /\ metadata = PersistedMetadata(MaxMutations)

\* C28: when a replay succeeds and the queue advances to the next effect in
\* the same turn, every temporary identifier of the answered effect that the
\* server response pairs with a server identifier is already in the
\* Identifier Map, and the operation sent for the next effect was built from
\* that map.
C28_ServerIdsRecordedBeforeAdvance ==
    [][\A n \in Issued : \A op \in inflight :
          (op.id = n /\ IsReplay(op) /\ ~Has(trace[n], "commit") /\ Has(trace'[n], "commit")) =>
              LET pairs == mapIds(getIds(op.optimisticResponse),
                                  getIds(Response(issue'[n].serverId)))
              IN  \A next \in inflight' \ inflight :
                      /\ Len(outbox) > 1
                      /\ next = offlineEffect(outbox[2].meta.offline.effect, metadata'.idsMap)
                      /\ \A old \in DOMAIN pairs :
                            /\ old \in DOMAIN metadata'.idsMap
                            /\ metadata'.idsMap[old] = pairs[old]]_vars

\* The first mutation was answered with a UUID-shaped server id while its
\* child waited behind it; the child's replay is in flight and names the
\* server id as its parent.
C28_Witness ==
    /\ Has(trace[1], "commit")
    /\ TempId(1) \in DOMAIN metadata.idsMap
    /\ metadata.idsMap[TempId(1)] = ServerUuid(1)
    /\ \E op \in inflight :
          /\ IsReplay(op)
          /\ op.id = 2
          /\ issue[2].parent = TempId(1)
          /\ op.variables = Variables(ServerUuid(1))

\* C29: when a replay succeeds while other effects stay queued, the
\* Identifier Map afterwards maps the temporary id of every path at which
\* both the optimistic response and the server response carry an identified
\* object to the server's id at that path, whatever value the server
\* assigned, and gains no entry for any other id.
C29_CommonPathsAreMapped ==
    [][\A n \in Issued : \A op \in inflight :
          ( /\ op.id = n
            /\ IsReplay(op)
            /\ ~Has(trace[n], "commit")
            /\ Has(trace'[n], "commit")
            /\ Len(outbox) > 1 ) =>
              LET olds == identifiedPairs(op.optimisticResponse, <<>>)
                  news == identifiedPairs(Response(issue'[n].serverId), <<>>)
                  common == {pr \in olds \X news : pr[1][1] = pr[2][1] /\ isUuid(pr[1][2])}
              IN  /\ \A pr \in common :
                        /\ pr[1][2] \in DOMAIN metadata'.idsMap
                        /\ metadata'.idsMap[pr[1][2]] = pr[2][2]
                  /\ DOMAIN metadata'.idsMap \subseteq
                        DOMAIN metadata.idsMap \cup {pr[1][2] : pr \in common}]_vars

\* C30: after a mutation is enqueued the Identifier Map has, for each object
\* of its optimistic response that carries a UUID-shaped id, one entry for
\* that id set to the not-yet-known marker; it has no other new entry, and
\* the entries of all other ids are as they were.
C30_EnqueueAddsNullEntries ==
    [][(issued' = issued + 1 /\ issue'[issued'].path = "enqueue") =>
          LET opt == issue'[issued'].optimisticResponse
              uuids == {pr[2] : pr \in {q \in identifiedPairs(opt, <<>>) : isUuid(q[2])}}
          IN  /\ DOMAIN metadata'.idsMap = DOMAIN metadata.idsMap \cup uuids
              /\ \A id \in uuids : metadata'.idsMap[id] = NULL
              /\ \A id \in DOMAIN metadata.idsMap \ uuids :
                    metadata'.idsMap[id] = metadata.idsMap[id]]_vars

\* The third mutation, with an optimistic entity of its own, was enqueued
\* when the first one's id was already mapped; and a mutation whose
\* optimistic entity has an id of another format was enqueued as well.
C30_Witness ==
    /\ issued = MaxQueued
    /\ issue[3].path = "enqueue"
    /\ issue[3].optimisticResponse = Response(TempId(3))
    /\ issue[3].idsMap = (TempId(1) :> ServerUuid(1))
    /\ issue[2].optimisticResponse = Response(ServerPlainId(2))
    /\ metadata.idsMap = (TempId(1) :> ServerUuid(1)) @@ (TempId(3) :> NULL)

\* Substitution as the Identifier Map defines it: a scalar that is a key of
\* the map with a known server identifier becomes that identifier, every
\* other scalar stays, objects and arrays keep their shape.
RECURSIVE Substituted(_, _)
Substituted(x, map) ==
    IF x.k = "str"
    THEN (IF x.v \in DOMAIN map /\ map[x.v] # NULL THEN Str(map[x.v]) ELSE x)
    ELSE IF x.k = "obj" THEN Obj([key \in DOMAIN x.f |-> Substituted(x.f[key], map)])
    ELSE IF x.k = "arr" THEN Arr([i \in DOMAIN x.e |-> Substituted(x.e[i], map)])
    ELSE x

\* C31: replaceUsingMap returns the structure it was given with every scalar
\* (the root, a field value, an array element, at any depth) that is a key
\* of the map with a known server identifier replaced by the mapped value,
\* and every other scalar unchanged.
C31_ReplacesMappedScalarsOnly ==
    ucall.k = "replaceUsingMap" => ucall.result = Substituted(ucall.obj, ucall.map)

\* C32: every call of replaceUsingMap on an object returns, also when the
\* object is reachable from itself.
C32_ReplaceTerminates ==
    (ucall.k = "walk" /\ ucall.status = "running")
        ~> (ucall.k = "walk" /\ ucall.status = "returned")

C35_BroadcastRestoredAfterAttempt ==
    [][\A op \in inflight :
          (cacheRestore /\ IsReplay(op) /\ op \notin inflight') =>
              /\ ((inflight' \ inflight = {}) => queryManager'.broadcastQueries = "orig")
              /\ ((~Has(trace[op.id], "commit") /\ Has(trace'[op.id], "commit"))
                    => queryManager'.broadcasts = queryManager.broadcasts + 1)]_vars

\* C36: the pending count is never negative and equals the number of effects
\* in the queue, queued or in flight; a step raises it by one for the effect
\* it enqueues and lowers it by one for the effect it commits or rolls back.
C36_PendingCountIsQueueLength ==
    /\ [](/\ metadata.snapshot.enqueuedMutations >= 0
          /\ metadata.snapshot.enqueuedMutations = Len(outbox)
          /\ metadata.snapshot.enqueuedMutations =
                Cardinality({n \in Issued : Queued(n) \/ InFlight(n)}))
    /\ [][LET gained(ev) == {n \in DOMAIN trace : ~Has(trace[n], ev) /\ Has(trace'[n], ev)}
          IN  metadata'.snapshot.enqueuedMutations - metadata.snapshot.enqueuedMutations
                = Cardinality(gained("enqueue"))
                    - Cardinality(gained("commit") \cup gained("rollback"))]_vars

\* The first mutation was rolled back while the second waited behind it: the
\* second is the one pending effect.
C36_Witness ==
    /\ issued = MaxMutations
    /\ Has(trace[1], "rollback")
    /\ InOutbox(2)
    /\ metadata.snapshot.enqueuedMutations = 1

C38_ReplayLeavesEffectUnchanged ==
    [][\A op \in inflight' \ inflight :
          IsReplay(op) =>
              LET stored == outbox'[1].meta.offline.effect
                  before == IF \E i \in DOMAIN outbox : outbox[i].meta.offline.effect.id = op.id
                            THEN outbox[CHOOSE i \in DOMAIN outbox :
                                           outbox[i].meta.offline.effect.id = op.id]
                                     .meta.offline.effect
                            ELSE EnqueuedEffect(op.id, Variables(issue'[op.id].parent),
                                                issue'[op.id].optimisticResponse)
              IN  /\ stored.id = op.id
                  /\ stored.operation.variables = before.operation.variables
                  /\ stored.optimisticResponse = before.optimisticResponse]_vars

\* C39: a conflict whose resolver returns a falsy value that is not the
\* discard sentinel leaves the effect as it was and is decided by the
\* transient-error rule: retried while error.permanent is unset and the
\* retry count is at most 10, discarded otherwise.
C39_FalsyResolverIsTransientRule ==
    (/\ dcall.done
     /\ dcall.in.conflictResolver = "function"
     /\ dcall.in.outcome = "falsy"
     /\ CCF \in dcall.in.error.graphQLErrors)
        => /\ dcall.decision = transientRule(dcall.in.error, dcall.in.retries)
           /\ dcall.effect = DiscardAction.meta.offline.effect

\* The places of a structure that hold a string, each with the string.
RECURSIVE Occurrences(_, _)
Occurrences(x, path) ==
    IF x.k = "str" THEN {<<path, x.v>>}
    ELSE IF x.k = "obj"
    THEN UNION {Occurrences(x.f[key], Append(path, key)) : key \in DOMAIN x.f}
    ELSE IF x.k = "arr"
    THEN UNION {Occurrences(x.e[i], Append(path, IdxStr(i - 1))) : i \in DOMAIN x.e}
    ELSE {}

\* The identifiers of a map whose entry is the not-yet-known marker.
Unknown(map) == {id \in DOMAIN map : map[id] = NULL}

\* C40: replaceUsingMap never substitutes an identifier whose entry in the
\* map is still the not-yet-known marker: every occurrence of it in the
\* structure is, at the same place, in the result.
C40_UnknownIdsAreKept ==
    ucall.k = "replaceUsingMap" =>
        \A occ \in Occurrences(ucall.obj, <<>>) :
            occ[2] \in Unknown(ucall.map) => occ \in Occurrences(ucall.result, <<>>)

\* replaceUsingMap has returned for a structure that holds, in a field and
\* in an array, an identifier whose entry is the marker, next to one whose
\* entry is known and was substituted.
C40_Witness ==
    /\ ucall.k = "replaceUsingMap"
    /\ ucall.map = ("T1" :> "S1") @@ ("T2" :> NULL)
    /\ ucall.obj = Obj(("a" :> Str("T1")) @@ ("b" :> Arr(<<Str("T2"), Str("T2")>>)))
    /\ ucall.result = Obj(("a" :> Str("S1")) @@ ("b" :> Arr(<<Str("T2"), Str("T2")>>)))

\* C40, for the queue: a replay sent while the map holds the marker for an
\* identifier carries that identifier wherever the mutation was issued with it.
C40_ReplaySendsUnknownIds ==
    [][\A op \in inflight' \ inflight :
          IsReplay(op) =>
              \A occ \in Occurrences(Variables(issue'[op.id].parent), <<>>) :
                  occ[2] \in Unknown(metadata'.idsMap)
                      => occ \in Occurrences(op.variables, <<>>)]_vars

====
